---- MODULE Spec2Model ----
(***************************************************************************)
(* Orchestration core of the "clarity" backend: the skill registry, the    *)
(* step transition resolver, the skill/chain executor, the intent          *)
(* dispatcher and the inferred-field merge paths.                          *)
(*                                                                         *)
(* The session state (WebsiteState) is the record variable `state`; the    *)
(* generator-based executor is modelled at the granularity of one skill    *)
(* execution per step (one iteration of the chain's while loop).           *)
(***************************************************************************)
EXTENDS Integers, Sequences, FiniteSets, TLC

VARIABLES
    registry,   \* SkillRegistry._skills : skill id -> Skill
    state,      \* the session's WebsiteState
    pc,         \* position of the request in flight: "idle", "chain", "dispatch", "finish"
    req,        \* the request in flight (or the last one): its operation and inputs
    cur,        \* execute_skill_chain's current_skill_id
    out,        \* fragments yielded by the request in flight (or the last one)
    ran,        \* skill executions of that request, in order (skill, feedback, failed)
    escaped,    \* TRUE when an exception left the generator of that request
    best,       \* per inferred key: the earliest offer of maximal confidence made so far
    owned,      \* the fields that a user-sourced update has written
    nreq,       \* number of requests started
    db,         \* the project_states table: session id -> the persisted row
    inflight    \* the requests between get_state and save_state, each with its copy

vars == <<registry, state, pc, req, cur, out, ran, escaped, best, owned, nreq,
          db, inflight>>

\* Who runs the request in flight: "direct" (a bare chain call), "intent"
\* (execute_intent), "router" (run_router_agent) or an endpoint
caller == req.op

-----------------------------------------------------------------------------
(* Bounds of the model *)

MaxCalls == 1          \* chain invocations per behaviour (SpecChain)
MaxRequests == 2       \* requests per behaviour (Spec)
MaxMerges == 3         \* requests per behaviour (SpecMerge)
MaxConf == 2           \* confidence k stands for k / MaxConf in [0.0, 1.0]
MaxTurns == 2          \* requests per behaviour (SpecDispatch)
MaxTokens == 4         \* tokens of a model output (SpecClassify)
MaxJobs == 3           \* requests per behaviour (SpecStore)
MaxRegistrations == 2  \* register() calls per behaviour (SpecRegister)
MaxEdits == 3          \* requests per behaviour (SpecEdits)
MaxApprovals == 4      \* approvals of a session that only approves

-----------------------------------------------------------------------------
(* Python values *)

Null == "null"              \* None
NoSkill == "none"           \* the requested_skill sentinel "none"
Empty == ""                 \* the empty string
UnknownId == "ghost"        \* an id that no registry holds

Truthy(x) == x # Null /\ x # Empty

-----------------------------------------------------------------------------
(* agents/registry.py: the skill catalog *)

PhaseOrder ==
    <<"intake", "research", "strategy", "ux", "planning",
      "seo", "copywriting", "prd", "building">>

SkillIds == {PhaseOrder[i] : i \in 1..Len(PhaseOrder)}

Ids == SkillIds \cup {UnknownId}

Skill(name, direct, next, approval, revision, auto, prereqs) ==
    [name |-> name, can_invoke_directly |-> direct, suggested_next |-> next,
     requires_approval |-> approval, revision_supported |-> revision,
     auto_execute |-> auto, prerequisites |-> prereqs]

\* The mutant of CoreSkills: the last skill suggests the one before it, so
\* that two skills without a gate suggest each other
CoreSkillsCyclic ==
    ("intake"      :> Skill("Intake & Audit", FALSE, "research", TRUE, FALSE, FALSE, <<>>)) @@
    ("research"    :> Skill("Business Researcher", TRUE, "strategy", FALSE, TRUE, TRUE, <<"intake">>)) @@
    ("strategy"    :> Skill("Project Brief", TRUE, "ux", TRUE, TRUE, TRUE, <<"research">>)) @@
    ("ux"          :> Skill("UX Designer", TRUE, "planning", FALSE, TRUE, TRUE, <<"strategy">>)) @@
    ("planning"    :> Skill("Sitemap Architect", TRUE, "seo", TRUE, TRUE, TRUE, <<"ux">>)) @@
    ("seo"         :> Skill("SEO Specialist", TRUE, "copywriting", FALSE, TRUE, TRUE, <<"planning">>)) @@
    ("copywriting" :> Skill("Copywriter", TRUE, "prd", TRUE, TRUE, TRUE, <<"seo">>)) @@
    ("prd"         :> Skill("Technical Strategist", TRUE, "building", FALSE, TRUE, TRUE, <<"copywriting">>)) @@
    ("building"    :> Skill("Code Builder", TRUE, "prd", FALSE, TRUE, TRUE, <<"prd">>))

CoreSkills ==
    ("intake"      :> Skill("Intake & Audit", FALSE, "research", TRUE, FALSE, FALSE, <<>>)) @@
    ("research"    :> Skill("Business Researcher", TRUE, "strategy", FALSE, TRUE, TRUE, <<"intake">>)) @@
    ("strategy"    :> Skill("Project Brief", TRUE, "ux", TRUE, TRUE, TRUE, <<"research">>)) @@
    ("ux"          :> Skill("UX Designer", TRUE, "planning", FALSE, TRUE, TRUE, <<"strategy">>)) @@
    ("planning"    :> Skill("Sitemap Architect", TRUE, "seo", TRUE, TRUE, TRUE, <<"ux">>)) @@
    ("seo"         :> Skill("SEO Specialist", TRUE, "copywriting", FALSE, TRUE, TRUE, <<"planning">>)) @@
    ("copywriting" :> Skill("Copywriter", TRUE, "prd", TRUE, TRUE, TRUE, <<"seo">>)) @@
    ("prd"         :> Skill("Technical Strategist", TRUE, "building", FALSE, TRUE, TRUE, <<"copywriting">>)) @@
    ("building"    :> Skill("Code Builder", TRUE, Null, FALSE, TRUE, TRUE, <<"prd">>))

\* The mutant of Register: the first registration of an id wins
RegisterKeepingFirst(reg, id, skill) ==
    [x \in (DOMAIN reg) \cup {id} |-> IF x \in DOMAIN reg THEN reg[x] ELSE skill]

\* SkillRegistry.register: a plain dict assignment
Register(reg, id, skill) ==
    [x \in (DOMAIN reg) \cup {id} |-> IF x = id THEN skill ELSE reg[x]]

\* SkillRegistry.get: the skill, or None for an unknown id
Has(reg, id) == id \in DOMAIN reg

\* SkillRegistry.list_all: the values of the dict, each skill with its id
list_all(reg) == {[id |-> x, skill |-> reg[x]] : x \in DOMAIN reg}

\* A registry after one further register() call on the core registry: the
\* skills whose flags or successor were re-registered.
VariantIds == {"research", "strategy", "ux", "building"}

SkillVariants(s) ==
    {[CoreSkills[s] EXCEPT !.auto_execute = ~@],
     [CoreSkills[s] EXCEPT !.requires_approval = ~@]}
    \cup {[CoreSkills[s] EXCEPT !.suggested_next = n] :
              n \in {Null, "intake", "seo", UnknownId}}

Catalogs ==
    {CoreSkills} \cup
    UNION {{Register(CoreSkills, s, v) : v \in SkillVariants(s)} : s \in VariantIds}

-----------------------------------------------------------------------------
(* constants.py *)

\* str.upper().replace(" ", "_") on the registered skill names
UpperUnderscore(name) ==
    CASE name = "Intake & Audit"       -> "INTAKE_&_AUDIT"
      [] name = "Business Researcher"  -> "BUSINESS_RESEARCHER"
      [] name = "Project Brief"        -> "PROJECT_BRIEF"
      [] name = "UX Designer"          -> "UX_DESIGNER"
      [] name = "Sitemap Architect"    -> "SITEMAP_ARCHITECT"
      [] name = "SEO Specialist"       -> "SEO_SPECIALIST"
      [] name = "Copywriter"           -> "COPYWRITER"
      [] name = "Technical Strategist" -> "TECHNICAL_STRATEGIST"
      [] name = "Code Builder"         -> "CODE_BUILDER"
      [] OTHER                         -> "UNKNOWN"

get_gate_name_for_step(step_id, skill_name) ==
    IF step_id = "planning" THEN "BLUEPRINT"
    ELSE IF step_id = "intake" THEN "INTAKE_&_AUDIT"
    ELSE IF step_id = "copywriting" THEN "MARKETING"
    ELSE IF skill_name # Empty THEN UpperUnderscore(skill_name) ELSE "UNKNOWN"

GateMarker(reg, id) == <<"gate", get_gate_name_for_step(id, reg[id].name)>>

-----------------------------------------------------------------------------
(* state_schema.py: WebsiteState *)

Fields == {"project_name", "industry"}

Absent == "absent"          \* a key that a dict does not hold

NoRecord == [value |-> Null, confidence |-> -1, source |-> Null, rationale |-> Null]

\* Ghost: no offer has been made for the key yet
NoOffer == [rec |-> NoRecord, clean |-> TRUE, ups |-> 0]

InitialState ==
    [current_step    |-> "intake",
     missing_info    |-> {},
     produced        |-> {},
     logs            |-> <<>>,
     agent_reasoning |-> <<>>,
     active          |-> [f \in Fields |-> Empty],
     inferred        |-> [f \in Fields |-> NoRecord],
     user_overrides  |-> [f \in Fields |-> Absent],
     inferred_fields |-> <<>>]

-----------------------------------------------------------------------------
(* database.py: the session store *)

Sessions == {"A", "B"}

\* A session without a record; a record holds state_json, and (ghost) the
\* number of times it was saved
NoRow == [row |-> FALSE, state |-> InitialState, saves |-> 0]

-----------------------------------------------------------------------------
(* agents/skill_executor.py: execute_skill *)

\* What an agent function can do when it is run: finish or raise; the
\* research agent may also fill an empty industry with an inferred one.
SkillOutcomes(id) ==
    {[raises |-> FALSE, infer |-> Null], [raises |-> TRUE, infer |-> Null]}
    \cup (IF id = "research" THEN {[raises |-> FALSE, infer |-> "Bakery"]} ELSE {})

\* Skill.execute: the feedback reaches the agent only when it is truthy
PassedFeedback(feedback) == IF Truthy(feedback) THEN feedback ELSE Null

\* The agent function's own effect on the state
AgentRun(st, id, oc) ==
    IF oc.raises THEN st
    ELSE LET s1 == [st EXCEPT !.produced = @ \cup {id},
                              !.logs = Append(@, <<"agent", id>>)]
         IN IF id = "research" /\ oc.infer # Null /\ st.active["industry"] = Empty
            THEN [s1 EXCEPT !.active["industry"] = oc.infer,
                            !.inferred_fields = Append(@, "industry")]
            ELSE s1

\* execute_skill's except branch: log, error fragment, and the generator ends
SkillFailure(st, reg, id) ==
    [st  |-> [st EXCEPT !.logs = Append(@, <<"error", id>>)],
     out |-> <<<<"start", id>>, <<"error", id>>>>,
     exc |-> FALSE]

execute_skill(st, reg, id, feedback, oc) ==
    IF ~Has(reg, id)
    THEN [st |-> st, out |-> <<<<"notfound", id>>>>, exc |-> FALSE, ran |-> <<>>]
    ELSE LET s1 == [st EXCEPT !.current_step = id,
                              !.logs = Append(@, <<"executing", id>>)]
             s2 == AgentRun(s1, id, oc)
             entry == [skill |-> id, feedback |-> PassedFeedback(feedback),
                       failed |-> oc.raises]
         IN IF oc.raises
            THEN SkillFailure(s2, reg, id) @@ [ran |-> <<entry>>]
            ELSE [st  |-> [s2 EXCEPT !.logs = Append(@, <<"completed", id>>)],
                  out |-> <<<<"start", id>>, <<"chunk", id>>>>,
                  exc |-> FALSE,
                  ran |-> <<entry>>]

-----------------------------------------------------------------------------
(* agents/skill_executor.py: execute_skill_chain *)

\* The mutant of IsGate: a gate stops the chain only when no auto-executing
\* successor follows it
IsGateUnlessSuccessor(reg, id) ==
    /\ reg[id].requires_approval
    /\ ~(/\ Truthy(reg[id].suggested_next)
         /\ Has(reg, reg[id].suggested_next)
         /\ reg[reg[id].suggested_next].auto_execute)

\* The mutant of IsGate: every skill stops the chain with a marker
IsGateAlways(reg, id) == TRUE

\* line 142: the skill just executed requires approval
IsGate(reg, id) == reg[id].requires_approval

\* The mutant of AutoSuccessor: the successor's auto_execute flag is ignored
AutoSuccessorAnyway(reg, id) ==
    LET n == reg[id].suggested_next
    IN IF Truthy(n) /\ Has(reg, n) THEN n ELSE Null

\* The mutant of AutoSuccessor: the chain continues into the successor's
\* successor
AutoSuccessorSkipping(reg, id) ==
    LET n == reg[id].suggested_next
    IN IF Truthy(n) /\ Has(reg, n) /\ reg[n].auto_execute
       THEN IF Truthy(reg[n].suggested_next) /\ Has(reg, reg[n].suggested_next)
            THEN reg[n].suggested_next ELSE n
       ELSE Null

\* lines 157-187: the successor the chain continues into, or None
\* The mutant of AutoSuccessor: the chain never continues into a successor
AutoSuccessorNever(reg, id) == Null

AutoSuccessor(reg, id) ==
    LET n == reg[id].suggested_next
    IN IF Truthy(n) /\ Has(reg, n) /\ reg[n].auto_execute THEN n ELSE Null

\* Where the generator of the request continues when the chain is over
AfterChain == IF caller = "router" THEN "finish" ELSE "idle"

\* execute_intent lines 331-337, run when the chain returns to the dispatcher
ProceedReasoning(st) ==
    IF caller = "direct" THEN st
    ELSE [st EXCEPT !.agent_reasoning = Append(@, <<"Router", "proceed">>)]

\* A direct call of execute_skill_chain(state, start, registry)
ChainCall(start) ==
    /\ pc = "idle"
    /\ nreq < MaxCalls
    /\ nreq' = nreq + 1
    /\ pc' = "chain"
    /\ req' = [op |-> "direct", start |-> start]
    /\ cur' = start
    /\ out' = <<>>
    /\ ran' = <<>>
    /\ escaped' = FALSE
    /\ UNCHANGED <<db, inflight, registry, state, best, owned>>

\* One iteration of the while loop whose skill is not registered: break
ChainBreakUnknown ==
    /\ pc = "chain"
    /\ ~Has(registry, cur)
    /\ pc' = AfterChain
    /\ state' = ProceedReasoning(state)
    /\ cur' = Null
    /\ UNCHANGED <<db, inflight, registry, req, out, ran, escaped, best, owned, nreq>>

\* One iteration of the while loop: execute the skill, then stop at a gate,
\* continue into an auto-executing successor, or stop
ChainStep ==
    /\ pc = "chain"
    /\ Has(registry, cur)
    /\ \E oc \in SkillOutcomes(cur) :
         LET r == execute_skill(state, registry, cur, Null, oc)
         IN /\ ran' = ran \o r.ran
            /\ IF r.exc
               THEN \* lines 130-139: re-raise to the caller of the chain
                    /\ out' = out \o r.out
                    /\ state' = r.st
                    /\ escaped' = TRUE
                    /\ cur' = Null
                    /\ pc' = AfterChain
               ELSE IF IsGate(registry, cur)
               THEN /\ out' = (out \o r.out) \o <<GateMarker(registry, cur)>>
                    /\ state' = ProceedReasoning(r.st)
                    /\ escaped' = escaped
                    /\ cur' = Null
                    /\ pc' = AfterChain
               ELSE LET n == AutoSuccessor(registry, cur)
                    IN /\ out' = out \o r.out
                       /\ escaped' = escaped
                       /\ IF n # Null
                          THEN /\ cur' = n
                               /\ state' = r.st
                               /\ pc' = "chain"
                          ELSE /\ cur' = Null
                               /\ state' = ProceedReasoning(r.st)
                               /\ pc' = AfterChain
    /\ UNCHANGED <<db, inflight, registry, req, best, owned, nreq>>

-----------------------------------------------------------------------------
(* helpers/field_updater.py *)

FIELD_MAP(key) ==
    CASE key = "name"   -> "project_name"
      [] key = "colors" -> "brand_colors"
      [] key = "style"  -> "design_style"
      [] OTHER          -> key

\* The attributes of WebsiteState that the model holds (hasattr, line 46)
StateAttrs == Fields \cup {"current_step", "logs", "agent_reasoning"}

EmptyList == "[]"           \* the JSON value [] of an updates entry

\* setattr(state, target_key, value), line 67; the two lists are only ever
\* offered the empty list
SetAttr(st, target_key, value) ==
    IF target_key \in Fields THEN [st EXCEPT !.active[target_key] = value]
    ELSE IF target_key = "current_step" THEN [st EXCEPT !.current_step = value]
    ELSE IF target_key = "logs" /\ value = EmptyList
    THEN [st EXCEPT !.logs = <<>>]
    ELSE IF target_key = "agent_reasoning" /\ value = EmptyList
    THEN [st EXCEPT !.agent_reasoning = <<>>]
    ELSE st

\* list.remove: the first occurrence only
RECURSIVE RemoveFirst(_, _)
RemoveFirst(seq, x) ==
    IF seq = <<>> THEN <<>>
    ELSE IF Head(seq) = x THEN Tail(seq)
    ELSE <<Head(seq)>> \o RemoveFirst(Tail(seq), x)

Elems(seq) == {seq[i] : i \in 1..Len(seq)}

update_state_field(st, field_name, value, source) ==
    LET target_key == FIELD_MAP(field_name)
        s1 == IF source = "user"
              THEN [st EXCEPT !.inferred_fields = RemoveFirst(@, target_key)]
              ELSE IF source = "inferred"
              THEN [st EXCEPT !.inferred_fields =
                        IF target_key \in Elems(@) THEN @ ELSE Append(@, target_key)]
              ELSE st
    IN IF target_key \notin StateAttrs THEN st
       ELSE SetAttr(s1, target_key, value)

\* The mutant of UpdateSource: only the key as given is looked up
UpdateSourceAsGiven(key, assumptions_list) ==
    IF key \in assumptions_list THEN "inferred" ELSE "user"

\* line 90: a key listed in assumptions (by itself or by its mapped name) is
\* inferred, any other key is user-provided
UpdateSource(key, assumptions_list) ==
    IF key \in assumptions_list \/ FIELD_MAP(key) \in assumptions_list
    THEN "inferred" ELSE "user"

\* The updates dict holds at most one key here: upd is [key, value], and the
\* key Null stands for the empty dict
update_state_from_router_updates(st, upd, assumptions_list) ==
    IF upd.key = Null THEN st
    ELSE IF upd.value = Null THEN st
    ELSE update_state_field(st, upd.key, upd.value,
                            UpdateSource(upd.key, assumptions_list))

-----------------------------------------------------------------------------
(* agents/intake_agent.py *)

MissingItems == {"Industry", "Brand Motto"}

\* What the auditor's model can answer: unparsable text, or a list of items
AuditResponses ==
    {[parsed |-> FALSE, missing |-> {}]}
    \cup {[parsed |-> TRUE, missing |-> m] : m \in SUBSET MissingItems}

\* lines 41-51: the names under which an inferred field may be reported missing
InferredFieldNames(inferred_fields) ==
    UNION {CASE f = "project_name" -> {"project_name", "Project Name", "Business Name"}
             [] f = "industry"     -> {"industry", "Industry"}
             [] OTHER              -> {} : f \in Elems(inferred_fields)}

run_intake_agent(st, resp) ==
    LET s1 == IF ~resp.parsed
              THEN [st EXCEPT !.logs = Append(@, <<"Intake Agent", "parse error">>)]
              ELSE [st EXCEPT !.missing_info =
                        resp.missing \ InferredFieldNames(st.inferred_fields)]
    IN [s1 EXCEPT !.logs = Append(@,
            IF s1.missing_info = {} THEN <<"Intake Agent Audit", "complete">>
            ELSE <<"Intake Agent Audit", "waiting">>)]

-----------------------------------------------------------------------------
(* Inference offers: what an enrichment model returns for one field *)

RawConfs == (-1)..(MaxConf + 1)      \* the model may answer outside [0.0, 1.0]

InRange(c) == c \in 0..MaxConf

\* One entry of an inferred payload: a value with its confidence and rationale
Offers ==
    {[value |-> "Bakery", confidence |-> c, rationale |-> "r1"] : c \in RawConfs}
    \cup {[value |-> "Legal", confidence |-> c, rationale |-> "r2"] : c \in RawConfs}

Record(value, confidence, source, rationale) ==
    [value |-> value, confidence |-> confidence, source |-> source,
     rationale |-> rationale]

HasRecord(st, f) == st.inferred[f] # NoRecord

UserOwned(st, f) == st.user_overrides[f] # Absent

-----------------------------------------------------------------------------
(* services/enrich_service.py *)

\* max(0.0, min(1.0, float(value)))
_coerce_confidence(c) == IF c < 0 THEN 0 ELSE IF c > MaxConf THEN MaxConf ELSE c

\* The mutant of AcceptNew: a tie is accepted
AcceptNewOrTie(st, f, new_conf) ==
    \/ ~HasRecord(st, f)
    \/ new_conf >= _coerce_confidence(st.inferred[f].confidence)

\* lines 294-304: accept when there is no record or the confidence is
\* strictly greater
AcceptNew(st, f, new_conf) ==
    \/ ~HasRecord(st, f)
    \/ new_conf > _coerce_confidence(st.inferred[f].confidence)

\* The mutant of SkipActive: the active field is updated whoever owns it
SkipActiveNever(st, f) == FALSE

\* lines 396-398: a user-overridden field keeps its active value
SkipActive(st, f) == UserOwned(st, f)

\* lines 400-430 for the fields of the model: only industry has an active
\* update; mapped is the mapped value of a confident mapping, or None
UpdateActive(st, f, value, mapped) ==
    LET value_to_use == IF Truthy(mapped) THEN mapped ELSE value
    IN IF f = "industry" /\ Truthy(value_to_use)
       THEN [st EXCEPT !.active[f] = value_to_use]
       ELSE st

\* _merge_inferred_values for a payload of one field
_merge_inferred_values(st, f, offer, mapped) ==
    LET new_conf == _coerce_confidence(offer.confidence)
    IN IF ~AcceptNew(st, f, new_conf)
       THEN [st EXCEPT !.logs = Append(@, <<"Enrich", "merged", "kept">>)]
       ELSE LET tag == IF HasRecord(st, f) THEN "upgraded" ELSE "new"
                s1 == [st EXCEPT !.inferred[f] =
                           Record(offer.value, new_conf, "llm", offer.rationale)]
                s2 == IF SkipActive(s1, f) THEN s1
                      ELSE UpdateActive(s1, f, offer.value, mapped)
            IN [s2 EXCEPT !.logs = Append(@, <<"Enrich", "merged", tag>>)]

NullOffer == [value |-> Null, confidence |-> 0, rationale |-> Empty]

\* What the inference call of run_enrichment can return: it raises, returns
\* nothing usable, or returns an inferred payload
LlmResults ==
    {[kind |-> k, offer |-> NullOffer] : k \in {"error", "nodata"}}
    \cup {[kind |-> "offer", offer |-> o] : o \in Offers}

\* run_enrichment(state, seed_text, website_url, force)
run_enrichment(st, url, force, f, llm, mapped) ==
    LET has_existing == \E g \in Fields : HasRecord(st, g)
    IN IF ~force /\ has_existing /\ ~url
       THEN [st EXCEPT !.logs = Append(@, <<"Enrich", "skipped">>)]
       ELSE LET s1 == [st EXCEPT !.logs = Append(@, <<"Enrich", "starting">>)]
                s2 == IF url THEN [s1 EXCEPT !.logs = Append(@, <<"Enrich", "scrape">>)]
                      ELSE s1
                s3 == [s2 EXCEPT !.logs = Append(@, <<"Enrich", "llm">>)]
                s4 == IF llm.kind = "error"
                      THEN [s3 EXCEPT !.logs = Append(@, <<"Enrich error", "llm">>)]
                      ELSE IF llm.kind = "nodata"
                      THEN [s3 EXCEPT !.logs = Append(@, <<"Enrich", "no data">>)]
                      ELSE _merge_inferred_values(
                               [s3 EXCEPT !.logs = Append(@, <<"Enrich", "ok">>)],
                               f, llm.offer, mapped)
            IN [s4 EXCEPT !.logs = Append(@, <<"Enrich", "complete">>)]

-----------------------------------------------------------------------------
(* main.py: the /enrich merge and the /update-project handler *)

\* The mutant of RejectOffer: only a strictly lower confidence is rejected
RejectOfferBelow(st, f, new_confidence) ==
    HasRecord(st, f) /\ new_confidence < st.inferred[f].confidence

\* lines 423-427: a record exists and the new confidence does not exceed it
RejectOffer(st, f, new_confidence) ==
    HasRecord(st, f) /\ new_confidence <= st.inferred[f].confidence

\* _merge_inferred_fields for a payload of one field; InferredField refuses a
\* confidence outside [0.0, 1.0] and the ValidationError leaves the function
_merge_inferred_fields(st, f, offer, source) ==
    IF UserOwned(st, f) THEN [st |-> st, exc |-> FALSE]
    ELSE IF RejectOffer(st, f, offer.confidence) THEN [st |-> st, exc |-> FALSE]
    ELSE IF ~InRange(offer.confidence) THEN [st |-> st, exc |-> TRUE]
    ELSE [st  |-> [st EXCEPT !.inferred[f] =
                       Record(offer.value, offer.confidence, source, offer.rationale)],
          exc |-> FALSE]

ScrapeResults == {"none", "web_scrape", "failed"}

\* What _run_llm_enrichment can do: time out, return {} or return a payload
EnrichResults ==
    {[kind |-> k, offer |-> NullOffer] : k \in {"timeout", "empty"}}
    \cup {[kind |-> "offer", offer |-> o] : o \in Offers}

EnrichSource(scrape) ==
    IF scrape = "web_scrape" THEN "enrich_agent:web_scrape" ELSE "enrich_agent:none"

\* enrich_project: scrape, infer, merge, log
enrich_project(st, scrape, f, llm) ==
    LET s1 == IF scrape = "none" THEN st
              ELSE [st EXCEPT !.logs = Append(@, <<"Enrich", "scrape", scrape>>)]
    IN IF llm.kind = "timeout"
       THEN [s1 EXCEPT !.logs = Append(@, <<"Enrich", "timed out">>)]
       ELSE IF llm.kind = "empty" THEN s1
       ELSE LET r == _merge_inferred_fields(s1, f, llm.offer, EnrichSource(scrape))
            IN IF r.exc
               THEN [r.st EXCEPT !.logs = Append(@, <<"Enrich", "LLM error">>)]
               ELSE [r.st EXCEPT !.logs = Append(@, <<"Enrich", "inferred">>)]

\* A form: at most one active field, the "user_overrides" list, and at most
\* one entry of project_meta.inferred and of project_meta.user_overrides (the
\* key Null stands for an absent entry)
FormValues == {"Legal", "Acme"}

Forms ==
    {[field |-> f, value |-> v, override_fields |-> o, inferred |-> i, meta |-> m] :
        f \in Fields \cup {Null}, v \in FormValues, o \in SUBSET Fields,
        i \in {[key |-> Null, confidence |-> 0]}
              \cup {[key |-> k, confidence |-> c] : k \in Fields, c \in RawConfs},
        m \in {[key |-> k, value |-> "Legal"] : k \in Fields \cup {Null}}}

\* lines 135-155
FormActive(st, data) ==
    IF data.field = Null THEN st
    ELSE LET s1 == [st EXCEPT !.active[data.field] = data.value]
         IN IF data.field \in data.override_fields
            THEN [s1 EXCEPT !.user_overrides[data.field] = data.value]
            ELSE s1

\* lines 157-172: the record is stored whatever the stored confidence is
FormMeta(st, data) ==
    LET s1 == IF data.inferred.key = Null THEN st
              ELSE [st EXCEPT !.inferred[data.inferred.key] =
                        Record("Cafe", data.inferred.confidence, "user_update", Empty)]
    IN IF data.meta.key = Null THEN s1
       ELSE [s1 EXCEPT !.user_overrides[data.meta.key] = data.meta.value]

\* lines 179-184
FormLogs(st, data) ==
    LET s1 == IF data.field # Null \/ data.inferred.key # Null \/ data.meta.key # Null
              THEN [st EXCEPT !.logs = Append(@, <<"Project updated">>)]
              ELSE st
    IN IF data.override_fields # {}
       THEN [s1 EXCEPT !.logs = Append(@, <<"User overrides set">>)]
       ELSE s1

\* update_project: a ValidationError of InferredField ends the request before
\* save_state, so the stored session keeps its old state
update_project(st, data, resp) ==
    IF data.inferred.key # Null /\ ~InRange(data.inferred.confidence) THEN st
    ELSE run_intake_agent(FormLogs(FormMeta(FormActive(st, data), data), data), resp)

-----------------------------------------------------------------------------
(* The endpoints and the enrichment service as requests on the session *)

\* Ghost: an offer has reached a merge. The earliest offer of maximal
\* confidence is kept; an offer outside [0.0, 1.0] spoils the comparison
OfferMade(b, f, rec) ==
    IF ~InRange(rec.confidence) THEN [b EXCEPT ![f].clean = FALSE]
    ELSE IF rec.confidence > b[f].rec.confidence
    THEN [b EXCEPT ![f].rec = rec, ![f].ups = @ + 1]
    ELSE b

\* Ghost: the record was written by something that is not an inference merge
DirectWrite(b, f) == [b EXCEPT ![f].clean = FALSE]

Mapped == {Null, "Food & Beverage"}

\* The inputs of a run_enrichment call
EnrichmentInputs ==
    {[url |-> u, force |-> fo, field |-> f, llm |-> l, mapped |-> m] :
        u \in BOOLEAN, fo \in BOOLEAN, f \in Fields, l \in LlmResults, m \in Mapped}

\* run_enrichment called on the session with inputs of the set inputs
RunEnrichment(limit, inputs) ==
    /\ pc = "idle"
    /\ nreq < limit
    /\ \E i \in inputs :
         LET merged == i.llm.kind = "offer" /\
                       (i.force \/ i.url \/ \A g \in Fields : ~HasRecord(state, g))
         IN /\ state' = run_enrichment(state, i.url, i.force, i.field, i.llm, i.mapped)
            /\ req' = [op |-> "run_enrichment", field |-> i.field,
                       confidence |-> IF merged THEN i.llm.offer.confidence ELSE 0,
                       merged |-> merged]
            /\ best' = IF merged
                       THEN OfferMade(best, i.field,
                                Record(i.llm.offer.value, i.llm.offer.confidence, "llm",
                                       i.llm.offer.rationale))
                       ELSE best
    /\ nreq' = nreq + 1
    /\ out' = <<>>
    /\ ran' = <<>>
    /\ escaped' = FALSE
    /\ UNCHANGED <<db, inflight, registry, pc, cur, owned>>

\* The inputs of a POST /enrich
EnrichRequests ==
    {[scrape |-> sc, field |-> f, llm |-> l] :
        sc \in ScrapeResults, f \in Fields, l \in EnrichResults}

\* POST /enrich with inputs of the set inputs
EnrichProject(limit, inputs) ==
    /\ pc = "idle"
    /\ nreq < limit
    /\ \E i \in inputs :
         LET merged == i.llm.kind = "offer"
         IN /\ state' = enrich_project(state, i.scrape, i.field, i.llm)
            /\ req' = [op |-> "enrich", field |-> i.field,
                       confidence |-> i.llm.offer.confidence, merged |-> merged]
            /\ best' = IF merged
                       THEN OfferMade(best, i.field,
                                Record(i.llm.offer.value, i.llm.offer.confidence,
                                       EnrichSource(i.scrape), i.llm.offer.rationale))
                       ELSE best
    /\ nreq' = nreq + 1
    /\ out' = <<>>
    /\ ran' = <<>>
    /\ escaped' = FALSE
    /\ UNCHANGED <<db, inflight, registry, pc, cur, owned>>

\* POST /update-project with a form of the set forms and an audit of audits
UpdateProject(limit, forms, audits) ==
    /\ pc = "idle"
    /\ nreq < limit
    /\ \E data \in forms, resp \in audits :
         LET stored == data.inferred.key = Null \/ InRange(data.inferred.confidence)
         IN /\ state' = update_project(state, data, resp)
            /\ req' = [op |-> "update_project", field |-> data.field,
                       confidence |-> data.inferred.confidence, merged |-> FALSE]
            /\ best' = IF stored /\ data.inferred.key # Null
                       THEN DirectWrite(best, data.inferred.key)
                       ELSE best
            /\ owned' = IF stored /\ data.field # Null
                        THEN owned \cup {data.field}
                        ELSE owned
    /\ nreq' = nreq + 1
    /\ out' = <<>>
    /\ ran' = <<>>
    /\ escaped' = FALSE
    /\ UNCHANGED <<db, inflight, registry, pc, cur>>

-----------------------------------------------------------------------------
(* agents/registry.py and helpers/step_transitions.py: the resolver *)

RECURSIVE IndexOf(_, _, _)
IndexOf(seq, x, i) ==
    IF i > Len(seq) THEN 0
    ELSE IF seq[i] = x THEN i
    ELSE IndexOf(seq, x, i + 1)

\* The mutant of get_next_in_flow: the order wraps around after its last phase
get_next_in_flow_wrapping(current_step) ==
    LET idx == IndexOf(PhaseOrder, current_step, 1)
    IN IF idx = 0 THEN Null
       ELSE IF idx < Len(PhaseOrder) THEN PhaseOrder[idx + 1] ELSE PhaseOrder[1]

get_next_in_flow(current_step) ==
    LET idx == IndexOf(PhaseOrder, current_step, 1)
    IN IF idx > 0 /\ idx < Len(PhaseOrder) THEN PhaseOrder[idx + 1] ELSE Null

get_natural_next_step(reg, current_step) ==
    IF Has(reg, current_step) /\ Truthy(reg[current_step].suggested_next)
    THEN reg[current_step].suggested_next
    ELSE get_next_in_flow(current_step)

\* The prerequisites whose output the state does not hold; no branch of the
\* code tests "building"
check_prerequisites(reg, skill_id, st) ==
    IF ~Has(reg, skill_id) THEN {}
    ELSE {p \in Elems(reg[skill_id].prerequisites) :
            \/ p = "intake" /\ st.missing_info # {}
            \/ p \in (SkillIds \ {"intake", "building"}) /\ p \notin st.produced}

\* The mutant of get_next_step: the classifier's suggestion comes before the
\* hard jumps
get_next_step_suggestion_first(current_step, action, reg, natural_next_step) ==
    IF action # "PROCEED" THEN natural_next_step
    ELSE IF Truthy(natural_next_step) THEN natural_next_step
    ELSE IF current_step = "intake" THEN "research"
    ELSE IF current_step = "research" THEN "strategy"
    ELSE IF current_step = "planning" THEN "seo"
    ELSE get_natural_next_step(reg, current_step)

\* registry=None: the caller passes no registry (a SkillRegistry holds the
\* core skills from its construction on, and is always truthy)
NoRegistry == [id \in {} |-> Null]

IsRegistry(reg) == DOMAIN reg # {}

\* The mutant of get_next_step: the catalog's suggested_next comes before the
\* hard jumps
get_next_step_catalog_first(current_step, action, reg, natural_next_step) ==
    IF action # "PROCEED" THEN natural_next_step
    ELSE IF Has(reg, current_step) /\ Truthy(reg[current_step].suggested_next)
    THEN reg[current_step].suggested_next
    ELSE IF current_step = "intake" THEN "research"
    ELSE IF current_step = "research" THEN "strategy"
    ELSE IF current_step = "planning" THEN "seo"
    ELSE IF Truthy(natural_next_step) THEN natural_next_step
    ELSE Null

\* The mutant of get_next_step: blueprint approval jumps past the marketing
\* skills
get_next_step_planning_to_prd(current_step, action, reg, natural_next_step) ==
    IF action # "PROCEED" THEN natural_next_step
    ELSE IF current_step = "intake" THEN "research"
    ELSE IF current_step = "research" THEN "strategy"
    ELSE IF current_step = "planning" THEN "prd"
    ELSE IF Truthy(natural_next_step) THEN natural_next_step
    ELSE IF IsRegistry(reg) THEN get_natural_next_step(reg, current_step)
    ELSE Null

\* The mutant of get_next_step: approving the intake jumps to the brief
get_next_step_intake_to_strategy(current_step, action, reg, natural_next_step) ==
    IF action # "PROCEED" THEN natural_next_step
    ELSE IF current_step = "intake" THEN "strategy"
    ELSE IF current_step = "research" THEN "strategy"
    ELSE IF current_step = "planning" THEN "seo"
    ELSE IF Truthy(natural_next_step) THEN natural_next_step
    ELSE IF IsRegistry(reg) THEN get_natural_next_step(reg, current_step)
    ELSE Null

get_next_step(current_step, action, reg, natural_next_step) ==
    IF action # "PROCEED" THEN natural_next_step
    ELSE IF current_step = "intake" THEN "research"
    ELSE IF current_step = "research" THEN "strategy"
    ELSE IF current_step = "planning" THEN "seo"
    ELSE IF Truthy(natural_next_step) THEN natural_next_step
    ELSE IF IsRegistry(reg) THEN get_natural_next_step(reg, current_step)
    ELSE Null

\* The mutant of can_proceed_from_step: one missing item is tolerated
can_proceed_with_one_missing(step, st) ==
    IF step = "intake" THEN Cardinality(st.missing_info) <= 1 ELSE TRUE

can_proceed_from_step(step, st) ==
    IF step = "intake" THEN st.missing_info = {} ELSE TRUE

-----------------------------------------------------------------------------
(* The decision of the intent classifier *)

UserMessage == "msg"        \* the user's message, never empty (main.py line 291)

Actions == {"CHAT", "INVOKE", "REVISE", "PROCEED"}

NoUpdate == [key |-> Null, value |-> Null]

\* The updates dict of a decision: empty, or one key with its value
Updates ==
    {NoUpdate,
     [key |-> "name", value |-> "Acme"],
     [key |-> "industry", value |-> "Legal"],
     [key |-> "industry", value |-> "Bakery"],
     [key |-> "industry", value |-> Null],
     [key |-> "current_step", value |-> "building"],
     [key |-> "budget", value |-> "low"]}

\* An updates dict whose key is one of the two list attributes of the state
ListUpdates ==
    {[key |-> "logs", value |-> EmptyList],
     [key |-> "agent_reasoning", value |-> EmptyList]}

Decisions ==
    {[action |-> a, requested_skill |-> rs, natural_next_step |-> nn,
      revision_feedback |-> fb, upd |-> u, assumptions |-> as] :
        a \in Actions, rs \in Ids \cup {NoSkill}, nn \in Ids \cup {Null},
        fb \in {Absent, Empty, "shorter"}, u \in Updates,
        as \in SUBSET {"industry", "project_name"}}

\* The feedback handed to the skill: router_agent.py line 202 falls back to
\* the message only when the key is absent, skill_executor.py line 216
\* whenever the feedback is falsy
Feedback(d) ==
    IF caller = "router"
    THEN IF d.revision_feedback = Absent THEN UserMessage ELSE d.revision_feedback
    ELSE IF d.revision_feedback = Absent \/ ~Truthy(d.revision_feedback)
         THEN UserMessage ELSE d.revision_feedback

-----------------------------------------------------------------------------
(* agents/intent_analyzer.py and router_agent.py phase 2: the classifier *)

\* The JSON objects that the model can answer with: a key that the object
\* does not hold is Absent (an absent updates or assumptions key reads as the
\* empty one)
RawDict(a, rs, u) ==
    [action |-> a, requested_skill |-> rs, natural_next_step |-> Null,
     revision_feedback |-> Absent, upd |-> u, assumptions |-> {}]

EmptyDict == RawDict(Absent, Absent, NoUpdate)

RawDicts ==
    {EmptyDict,
     RawDict("INVOKE", "research", NoUpdate),
     RawDict(Absent, Absent, [key |-> "name", value |-> "Acme"])}

\* The text of a model output is a sequence of tokens: whitespace, a code
\* fence, the word json, text that is not JSON, a JSON array, a JSON object
Token(t, d) == [t |-> t, d |-> d]

Tokens ==
    {Token(t, EmptyDict) : t \in {"ws", "fence", "json", "junk", "array"}}
    \cup {Token("object", d) : d \in RawDicts}

ModelOutputs(n) == UNION {[1..k -> Tokens] : k \in 0..n}

IsWs(tok) == tok.t = "ws"

\* str.strip()
RECURSIVE LStrip(_)
LStrip(text) ==
    IF text # <<>> /\ IsWs(Head(text)) THEN LStrip(Tail(text)) ELSE text

RECURSIVE RStrip(_)
RStrip(text) ==
    IF text # <<>> /\ IsWs(text[Len(text)])
    THEN RStrip(SubSeq(text, 1, Len(text) - 1)) ELSE text

Strip(text) == RStrip(LStrip(text))

\* The position of the first fence at or after position i, or 0
RECURSIVE FenceFrom(_, _)
FenceFrom(text, i) ==
    IF i > Len(text) THEN 0
    ELSE IF text[i].t = "fence" THEN i
    ELSE FenceFrom(text, i + 1)

\* text.split("```")[1]: what stands between the first fence and the next
SplitSecond(text) ==
    LET a == FenceFrom(text, 1)
        b == FenceFrom(text, a + 1)
    IN SubSeq(text, a + 1, IF b = 0 THEN Len(text) ELSE b - 1)

\* lines 71-76: strip, take the fenced part, drop a leading "json", strip
CleanJson(text) ==
    LET c1 == Strip(text)
        c2 == IF FenceFrom(c1, 1) # 0 THEN SplitSecond(c1) ELSE c1
        c3 == IF FenceFrom(c1, 1) # 0 /\ c2 # <<>> /\ c2[1].t = "json"
              THEN Tail(c2) ELSE c2
    IN Strip(c3)

\* json.loads: one JSON value, whitespace around it allowed
JsonLoads(text) ==
    LET v == Strip(text)
    IN IF Len(v) = 1 /\ v[1].t \in {"array", "object"}
       THEN [ok |-> TRUE, value |-> v[1]]
       ELSE [ok |-> FALSE, value |-> Token("junk", EmptyDict)]

\* The substitute of lines 83 (intent_analyzer.py) and 382 (router_agent.py)
DefaultDict == RawDict("CHAT", NoSkill, NoUpdate)

\* The mutant of ParseDecision: a lenient parser reads the first JSON object
\* of the cleaned text and ignores what follows it
ParseDecisionLenient(text) ==
    IF text # <<>> /\ text[1].t = "object" THEN text[1].d ELSE DefaultDict

\* lines 78-83: json.loads and decision.get inside the try; a text that does
\* not load, or a value without .get, gives the substitute
ParseDecision(text) ==
    LET r == JsonLoads(text)
    IN IF r.ok /\ r.value.t = "object" THEN r.value.d ELSE DefaultDict

\* IntentDecision.__init__: the defaults of the keys that the dict lacks
IntentDecision(raw) ==
    [action            |-> IF raw.action = Absent THEN "CHAT" ELSE raw.action,
     requested_skill   |-> IF raw.requested_skill = Absent THEN NoSkill
                           ELSE raw.requested_skill,
     natural_next_step |-> raw.natural_next_step,
     revision_feedback |-> IF raw.revision_feedback = Absent THEN Empty
                           ELSE raw.revision_feedback,
     upd               |-> raw.upd,
     assumptions       |-> raw.assumptions]

\* The decision dict as run_router_agent and _execute_intent read it:
\* decision.get with the same defaults, the feedback key left as it is
RouterDecision(raw) ==
    [IntentDecision(raw) EXCEPT !.revision_feedback = raw.revision_feedback]

analyze_intent(text) == IntentDecision(ParseDecision(CleanJson(text)))

RouterClassify(text) == RouterDecision(ParseDecision(CleanJson(text)))

-----------------------------------------------------------------------------
(* agents/router_agent.py: run_router_agent and _execute_intent *)

\* Phases 3 to 5 of run_router_agent: reasoning, updates, intake audit
RouterPrepare(st, d, resp) ==
    LET s1 == [st EXCEPT !.agent_reasoning = Append(@, <<"Router", "reasoning">>)]
        s2 == IF d.upd.key # Null
              THEN update_state_from_router_updates(s1, d.upd, d.assumptions)
              ELSE s1
        s3 == IF s2.current_step = "intake" THEN run_intake_agent(s2, resp) ELSE s2
    IN IF s2.current_step = "intake" /\ s3.missing_info = {}
       THEN [s3 EXCEPT !.logs = Append(@, <<"Auditor", "ready">>)]
       ELSE s3

\* Ghost: the field that a user-sourced classifier update writes, if any
UserWritten(d) ==
    IF /\ d.upd.key # Null
       /\ d.upd.value # Null
       /\ UpdateSource(d.upd.key, d.assumptions) = "user"
       /\ FIELD_MAP(d.upd.key) \in Fields
    THEN {FIELD_MAP(d.upd.key)} ELSE {}

\* POST /chat: run_router_agent up to the dispatch of the decision
RouterBegin(limit, decisions, audits) ==
    /\ pc = "idle"
    /\ nreq < limit
    /\ \E d \in decisions, resp \in audits :
         /\ state' = RouterPrepare(state, d, resp)
         /\ req' = [op |-> "router", decision |-> d]
         /\ owned' = owned \cup UserWritten(d)
         /\ pc' = IF d.action \in {"INVOKE", "REVISE", "PROCEED"}
                  THEN "dispatch" ELSE "finish"
    /\ nreq' = nreq + 1
    /\ out' = <<>>
    /\ ran' = <<>>
    /\ escaped' = FALSE
    /\ UNCHANGED <<db, inflight, registry, cur, best>>

\* The mutant of IntakeMarkerDue: missing_info is not looked at
IntakeMarkerDueInIntake(st) == st.current_step = "intake"

\* line 458: the intake checkpoint is due
IntakeMarkerDue(st) == st.current_step = "intake" /\ st.missing_info = {}

\* Phases 7 and 8: the action log line and the intake checkpoint marker
RouterFinish ==
    /\ pc = "finish"
    /\ state' = [state EXCEPT !.logs =
                     Append(@, <<"Router", req.decision.action, state.current_step>>)]
    /\ out' = IF IntakeMarkerDue(state)
              THEN Append(out, <<"gate", get_gate_name_for_step("intake", "Intake & Audit")>>)
              ELSE out
    /\ pc' = "idle"
    /\ UNCHANGED <<db, inflight, registry, req, cur, ran, escaped, best, owned, nreq>>

\* A call of skill_executor.execute_intent(state, decision, user_message):
\* lines 210-218, up to the branch on the action
IntentCall(limit, decisions) ==
    /\ pc = "idle"
    /\ nreq < limit
    /\ \E d \in decisions : req' = [op |-> "intent", decision |-> d]
    /\ pc' = "dispatch"
    /\ nreq' = nreq + 1
    /\ out' = <<>>
    /\ ran' = <<>>
    /\ escaped' = FALSE
    /\ UNCHANGED <<db, inflight, registry, state, cur, best, owned>>

\* A call of analyze_intent on a fresh session: the model's output is read
\* and the decision is returned to the caller
AnalyzeIntent(texts) ==
    /\ pc = "idle"
    /\ req.op = "none"
    /\ \E text \in texts :
         req' = [op |-> "classify", text |-> text, decision |-> analyze_intent(text)]
    /\ nreq' = nreq + 1
    /\ out' = <<>>
    /\ ran' = <<>>
    /\ escaped' = FALSE
    /\ UNCHANGED <<db, inflight, registry, state, pc, cur, best, owned>>

\* POST /chat on a fresh session, from the model's output on: phases 2 to 5
\* of run_router_agent
RouterRead(texts, audits) ==
    /\ pc = "idle"
    /\ req.op = "none"
    /\ \E text \in texts, resp \in audits :
         LET d == RouterClassify(text)
         IN /\ state' = RouterPrepare(state, d, resp)
            /\ req' = [op |-> "router", text |-> text, decision |-> d]
            /\ owned' = owned \cup UserWritten(d)
            /\ pc' = IF d.action \in {"INVOKE", "REVISE", "PROCEED"}
                     THEN "dispatch" ELSE "finish"
    /\ nreq' = nreq + 1
    /\ out' = <<>>
    /\ ran' = <<>>
    /\ escaped' = FALSE
    /\ UNCHANGED <<db, inflight, registry, cur, best>>

\* The mutant of RunAlone: the marker follows every stand-alone execution
RunAloneMarked(st, id, feedback, oc, thought) ==
    LET r == execute_skill(st, registry, id, feedback, oc)
    IN [st  |-> [r.st EXCEPT !.agent_reasoning = Append(@, <<"Router", thought>>)],
        out |-> r.out \o <<GateMarker(registry, id)>>,
        ran |-> r.ran]

\* A stand-alone skill execution of INVOKE or REVISE: the skill, its marker
\* when it requires approval, and the reasoning entry
RunAlone(st, id, feedback, oc, thought) ==
    LET r == execute_skill(st, registry, id, feedback, oc)
    IN [st  |-> [r.st EXCEPT !.agent_reasoning = Append(@, <<"Router", thought>>)],
        out |-> IF registry[id].requires_approval
                THEN r.out \o <<GateMarker(registry, id)>>
                ELSE r.out,
        ran |-> r.ran]

\* The mutant of CanInvoke: every registered skill can be invoked
CanInvokeRegistered(reg, id) == Has(reg, id)

\* line 226: skill and skill.can_invoke_directly
CanInvoke(reg, id) == Has(reg, id) /\ reg[id].can_invoke_directly

\* The mutant of PrereqNote: the warning is dropped
PrereqNoteDropped(st, reg, id) == st

\* lines 228-232: the warning about prerequisites without output
PrereqNote(st, reg, id) ==
    IF check_prerequisites(reg, id, st) # {}
    THEN [st EXCEPT !.logs = Append(@, <<"Note", id>>)]
    ELSE st

\* action == "INVOKE" and requested_skill != "none"
DispatchInvoke ==
    /\ pc = "dispatch"
    /\ req.decision.action = "INVOKE"
    /\ req.decision.requested_skill # NoSkill
    /\ LET id == req.decision.requested_skill
       IN IF CanInvoke(registry, id)
          THEN \E oc \in SkillOutcomes(id) :
                 LET s1 == PrereqNote(state, registry, id)
                     r == RunAlone(s1, id, Feedback(req.decision), oc, "invoke")
                 IN /\ state' = r.st
                    /\ out' = out \o r.out
                    /\ ran' = ran \o r.ran
          ELSE /\ state' = [state EXCEPT !.logs = Append(@, <<"System", "cannot invoke", id>>)]
               /\ UNCHANGED <<out, ran>>
    /\ pc' = AfterChain
    /\ UNCHANGED <<db, inflight, registry, req, cur, escaped, best, owned, nreq>>

\* line 257: the requested skill when one is given, otherwise the current step
RevisionTarget(d, st) ==
    IF d.requested_skill # NoSkill THEN d.requested_skill ELSE st.current_step

\* The mutant of CanRevise: every registered skill can be revised
CanReviseRegistered(reg, id) == Has(reg, id)

\* line 260: skill and skill.revision_supported
CanRevise(reg, id) == Has(reg, id) /\ reg[id].revision_supported

\* action == "REVISE"
DispatchRevise ==
    /\ pc = "dispatch"
    /\ req.decision.action = "REVISE"
    /\ LET id == RevisionTarget(req.decision, state)
       IN IF CanRevise(registry, id)
          THEN \E oc \in SkillOutcomes(id) :
                 LET r == RunAlone(state, id, Feedback(req.decision), oc, "revise")
                 IN /\ state' = r.st
                    /\ out' = out \o r.out
                    /\ ran' = ran \o r.ran
          ELSE /\ state' = [state EXCEPT !.logs = Append(@, <<"System", "no revision", id>>)]
               /\ UNCHANGED <<out, ran>>
    /\ pc' = AfterChain
    /\ UNCHANGED <<db, inflight, registry, req, cur, escaped, best, owned, nreq>>

\* action == "PROCEED": refuse, start the chain at the resolved step, or
\* report that there is no next step. Ghost: the request keeps the step and
\* the missing_info that the branch was entered with.
DispatchProceed ==
    /\ pc = "dispatch"
    /\ req.decision.action = "PROCEED"
    /\ LET target_step == get_next_step(state.current_step, "PROCEED", registry,
                                        req.decision.natural_next_step)
       IN IF ~can_proceed_from_step(state.current_step, state)
          THEN /\ state' = [state EXCEPT !.logs = Append(@, <<"System", "cannot proceed">>)]
               /\ pc' = AfterChain
               /\ cur' = cur
          ELSE IF Truthy(target_step)
          THEN /\ state' = state
               /\ pc' = "chain"
               /\ cur' = target_step
          ELSE /\ state' = [state EXCEPT !.logs = Append(@, <<"System", "no next step">>)]
               /\ pc' = AfterChain
               /\ cur' = cur
    /\ req' = [op |-> req.op, decision |-> req.decision,
               from |-> state.current_step, missing |-> state.missing_info]
    /\ UNCHANGED <<db, inflight, registry, out, ran, escaped, best, owned, nreq>>

\* No branch of the dispatcher matches: INVOKE without a requested skill, or
\* an action that is none of INVOKE, REVISE, PROCEED
DispatchNone ==
    /\ pc = "dispatch"
    /\ \/ /\ req.decision.action = "INVOKE"
          /\ req.decision.requested_skill = NoSkill
       \/ req.decision.action \notin {"INVOKE", "REVISE", "PROCEED"}
    /\ pc' = AfterChain
    /\ UNCHANGED <<db, inflight, registry, state, req, cur, out, ran, escaped, best, owned, nreq>>

-----------------------------------------------------------------------------
(* database.py and main.py: requests against the session store *)

\* The mutant of Lookup: the query has no filter and returns the table's
\* first record
LookupFirst(table, sid) ==
    IF \E s \in Sessions : table[s].row
    THEN table[CHOOSE s \in Sessions : table[s].row]
    ELSE NoRow

\* db.query(ProjectState).filter(ProjectState.session_id == session_id).first()
Lookup(table, sid) == table[sid]

\* get_state: the session's stored state; a session without a record gets
\* one with the default state, committed at once
get_state(table, sid) ==
    LET record == Lookup(table, sid)
    IN IF record.row
       THEN [state |-> record.state, table |-> table]
       ELSE [state |-> InitialState,
             table |-> [table EXCEPT ![sid] =
                           [row |-> TRUE, state |-> InitialState, saves |-> 0]]]

\* save_state: the whole state replaces the record's state_json
save_state(table, sid, st) ==
    [table EXCEPT ![sid] = [row |-> TRUE, state |-> st, saves |-> @.saves + 1]]

\* The state that run_router_agent leaves when the decision is not dispatched
ChatResult(st, d, resp) ==
    LET s1 == RouterPrepare(st, d, resp)
    IN [s1 EXCEPT !.logs = Append(@, <<"Router", d.action, s1.current_step>>)]

\* An endpoint resolves the session id and calls get_state; the request then
\* works on its own WebsiteState object
GetState(limit, ops) ==
    /\ nreq < limit
    /\ \E sid \in Sessions, op \in ops :
         LET g == get_state(db, sid)
         IN /\ db' = g.table
            /\ inflight' = inflight \cup
                   {[id |-> nreq + 1, sid |-> sid, op |-> op, state |-> g.state,
                     saves |-> Lookup(db, sid).saves]}
    /\ nreq' = nreq + 1
    /\ UNCHANGED <<registry, state, pc, req, cur, out, ran, escaped, best, owned>>

\* POST /chat, from the router's run to save_state at the end of the stream
ChatSave(decisions, audits) ==
    /\ \E j \in inflight, d \in decisions, resp \in audits :
         /\ j.op = "chat"
         /\ db' = save_state(db, j.sid, ChatResult(j.state, d, resp))
         /\ inflight' = inflight \ {j}
    /\ UNCHANGED <<registry, state, pc, req, cur, out, ran, escaped, best, owned, nreq>>

\* POST /update-project, from the form's updates to save_state; a validation
\* error ends the request before save_state
UpdateProjectSave(forms, audits) ==
    /\ \E j \in inflight, data \in forms, resp \in audits :
         /\ j.op = "update_project"
         /\ db' = IF data.inferred.key = Null \/ InRange(data.inferred.confidence)
                  THEN save_state(db, j.sid, update_project(j.state, data, resp))
                  ELSE db
         /\ inflight' = inflight \ {j}
    /\ UNCHANGED <<registry, state, pc, req, cur, out, ran, escaped, best, owned, nreq>>

-----------------------------------------------------------------------------
(* Specifications *)

InitWith(catalogs) ==
    /\ registry \in catalogs
    /\ state = InitialState
    /\ pc = "idle"
    /\ req = [op |-> "none"]
    /\ cur = Null
    /\ out = <<>>
    /\ ran = <<>>
    /\ escaped = FALSE
    /\ best = [f \in Fields |-> NoOffer]
    /\ owned = {}
    /\ nreq = 0
    /\ db = [sid \in Sessions |-> NoRow]
    /\ inflight = {}

\* A fresh session under the catalog the registry's constructor builds
Init == InitWith({CoreSkills})

InitChain == InitWith(Catalogs)

NextChain ==
    \/ \E start \in Ids : ChainCall(start)
    \/ ChainBreakUnknown
    \/ ChainStep

\* execute_skill_chain called on a fresh session, under every catalog
SpecChain == InitChain /\ [][NextChain]_vars

\* The same calls with the loop of the chain driven to its end: the caller
\* iterates the generator until it is exhausted, and every iteration of the
\* while loop either breaks or executes one skill and returns
SpecChainFair ==
    SpecChain /\ WF_vars(ChainStep) /\ WF_vars(ChainBreakUnknown)

\* The service is run without a website, on one field
MergeEnrichments ==
    {i \in EnrichmentInputs : /\ ~i.url
                              /\ i.llm.kind = "offer"
                              /\ (i.mapped # Null => i.field = "industry")}

\* The endpoint is called without a website
MergeRequests == {i \in EnrichRequests : i.scrape = "none" /\ i.llm.kind = "offer"}

\* A form that makes its field user-owned
MergeForms ==
    {d \in Forms : /\ d.meta.key = Null
                   /\ d.inferred.key = Null
                   /\ d.value = "Legal"
                   /\ d.field # Null
                   /\ d.override_fields = {d.field}}

MergeAudits == {r \in AuditResponses : r.parsed /\ r.missing = {}}

\* All the offers of a behaviour concern one field
Focused(f) == \A g \in Fields \ {f} : best[g] = NoOffer

NextMerge ==
    \/ RunEnrichment(MaxMerges, {i \in MergeEnrichments : Focused(i.field)})
    \/ EnrichProject(MaxMerges, {i \in MergeRequests : Focused(i.field)})
    \/ UpdateProject(MaxMerges, MergeForms, MergeAudits)

\* A session that receives inference merges and forms
SpecMerge == Init /\ [][NextMerge]_vars

\* The decisions of a session: updates come with CHAT, a requested skill with
\* INVOKE or REVISE, a suggested next step with PROCEED
SessionDecisions ==
    {d \in Decisions :
        \/ /\ d.action = "CHAT"
           /\ d.requested_skill = NoSkill /\ d.natural_next_step = Null
           /\ d.revision_feedback = Absent
           /\ d.assumptions \in {{}, {"industry"}}
        \/ /\ d.action = "INVOKE"
           /\ d.requested_skill \in {NoSkill, "intake", "research", "strategy", UnknownId}
           /\ d.natural_next_step = Null /\ d.revision_feedback = Absent
           /\ d.upd = NoUpdate /\ d.assumptions = {}
        \/ /\ d.action = "REVISE"
           /\ d.requested_skill \in {NoSkill, "strategy"}
           /\ d.natural_next_step = Null /\ d.revision_feedback \in {Absent, "shorter"}
           /\ d.upd = NoUpdate /\ d.assumptions = {}
        \/ /\ d.action = "PROCEED"
           /\ d.requested_skill = NoSkill
           /\ d.natural_next_step \in {Null, "building", UnknownId}
           /\ d.revision_feedback = Absent
           /\ d.upd = NoUpdate /\ d.assumptions = {}}

SessionAudits == {r \in AuditResponses : r.missing \in {{}, {"Industry"}}}

\* The forms of a session concern the industry
SessionForms ==
    {d \in Forms :
        /\ d.value = "Legal"
        /\ d.field \in {Null, "industry"}
        /\ d.override_fields \in {{}, {"industry"}}
        /\ d.override_fields # {} => d.field # Null
        /\ d.inferred.key \in {Null, "industry"}
        /\ d.inferred.confidence \in {0, MaxConf + 1}
        /\ d.meta.key = Null
        /\ d.field = Null \/ d.inferred.key = Null}

SessionOffers == {o \in Offers : o.value = "Bakery" /\ o.confidence = MaxConf}

SessionEnrichments ==
    {i \in EnrichmentInputs :
        /\ i.field = "industry"
        /\ ~i.force
        /\ i.mapped = Null
        /\ i.llm.kind = "offer" => i.llm.offer \in SessionOffers}

SessionRequests ==
    {i \in EnrichRequests :
        /\ i.field = "industry"
        /\ i.scrape # "web_scrape"
        /\ i.llm.kind = "offer" => i.llm.offer \in SessionOffers}

Next ==
    \/ RouterBegin(MaxRequests, SessionDecisions, SessionAudits)
    \/ DispatchInvoke
    \/ DispatchRevise
    \/ DispatchProceed
    \/ DispatchNone
    \/ ChainBreakUnknown
    \/ ChainStep
    \/ RouterFinish
    \/ UpdateProject(MaxRequests, SessionForms, SessionAudits)
    \/ EnrichProject(MaxRequests, SessionRequests)
    \/ RunEnrichment(MaxRequests, SessionEnrichments)

\* A session served by the chat endpoint, the form endpoint and the two
\* enrichment paths, one request at a time
Spec == Init /\ [][Next]_vars

\* The decisions handed to the dispatcher: no updates, every kind of target
DispatchDecisions ==
    {d \in Decisions :
        /\ d.upd = NoUpdate /\ d.assumptions = {}
        /\ d.revision_feedback = Absent
        /\ \/ /\ d.action = "CHAT"
              /\ d.requested_skill = NoSkill /\ d.natural_next_step = Null
           \/ /\ d.action = "INVOKE"
              /\ d.requested_skill \in {NoSkill, "intake", "research", "strategy", UnknownId}
              /\ d.natural_next_step = Null
           \/ /\ d.action = "REVISE"
              /\ d.requested_skill \in {NoSkill, "intake", "research", "strategy", UnknownId}
              /\ d.natural_next_step = Null
           \/ /\ d.action = "PROCEED"
              /\ d.requested_skill = NoSkill
              /\ d.natural_next_step \in {Null, "building", UnknownId}}

NextDispatch ==
    \/ RouterBegin(MaxTurns, DispatchDecisions, SessionAudits)
    \/ IntentCall(MaxTurns, DispatchDecisions)
    \/ DispatchInvoke
    \/ DispatchRevise
    \/ DispatchProceed
    \/ DispatchNone
    \/ ChainBreakUnknown
    \/ ChainStep
    \/ RouterFinish

\* A session whose messages are dispatched by run_router_agent or handed to
\* execute_intent directly
SpecDispatch == Init /\ [][NextDispatch]_vars


\* A call of get_next_step(current_step, action, registry, natural_next_step)
GetNextStep(steps, actions, nexts) ==
    /\ pc = "idle"
    /\ req.op = "none"
    /\ \E cs \in steps, a \in actions, nn \in nexts :
         req' = [op |-> "resolve", current_step |-> cs, action |-> a,
                 natural_next_step |-> nn,
                 result |-> get_next_step(cs, a, registry, nn)]
    /\ nreq' = nreq + 1
    /\ UNCHANGED <<db, inflight, registry, state, pc, cur, out, ran, escaped, best, owned>>

InitResolve == InitWith(Catalogs \cup {NoRegistry})

\* natural_next_step: None, the empty string, or any id
ResolveNexts == Ids \cup {Null, Empty}

NextResolve == GetNextStep(Ids, Actions, ResolveNexts)

\* The resolver called with every step, action and suggestion, under every
\* catalog and without a registry
SpecResolve == InitResolve /\ [][NextResolve]_vars

\* The chat messages of the store's sessions are not dispatched
StoreDecisions ==
    {d \in Decisions :
        /\ d.action = "CHAT"
        /\ d.requested_skill = NoSkill /\ d.natural_next_step = Null
        /\ d.revision_feedback = Absent /\ d.assumptions = {}
        /\ d.upd \in {[key |-> "name", value |-> "Acme"],
                       [key |-> "industry", value |-> "Bakery"]}}

StoreForms == {d \in MergeForms : d.field = "industry"}

NextStore ==
    \/ GetState(MaxJobs, {"chat", "update_project"})
    \/ ChatSave(StoreDecisions, MergeAudits)
    \/ UpdateProjectSave(StoreForms, MergeAudits)

\* Requests of two sessions against the store, interleaved as the server's
\* threads allow
SpecStore == Init /\ [][NextStore]_vars

\* register(skill) on the constructed registry; `before` keeps the skill the
\* id held when the call was made
RegisterSkill(limit, ids) ==
    /\ pc = "idle"
    /\ nreq < limit
    /\ \E id \in ids : \E skill \in SkillVariants(id) \cup {CoreSkills[id]} :
          /\ registry' = Register(registry, id, skill)
          /\ req' = [op |-> "register", id |-> id, skill |-> skill,
                      before |-> registry[id]]
    /\ nreq' = nreq + 1
    /\ UNCHANGED <<state, pc, cur, out, ran, escaped, best, owned, db, inflight>>

NextRegister == RegisterSkill(MaxRegistrations, VariantIds)

\* register() calls on the registry the constructor built
SpecRegister == Init /\ [][NextRegister]_vars

\* The decisions of a session whose updates, if any, name a list attribute
TrailDecisions ==
    {d \in SessionDecisions : d.upd = NoUpdate /\ d.assumptions = {}}
    \cup {[action |-> "CHAT", requested_skill |-> NoSkill,
           natural_next_step |-> Null, revision_feedback |-> Absent,
           upd |-> u, assumptions |-> {}] : u \in ListUpdates}

TrailForms == {d \in SessionForms : d.inferred.key = Null}

NextTrail ==
    \/ RouterBegin(MaxRequests, TrailDecisions, SessionAudits)
    \/ DispatchInvoke
    \/ DispatchRevise
    \/ DispatchProceed
    \/ DispatchNone
    \/ ChainBreakUnknown
    \/ ChainStep
    \/ RouterFinish
    \/ UpdateProject(MaxRequests, TrailForms, SessionAudits)
    \/ EnrichProject(MaxRequests, SessionRequests)
    \/ RunEnrichment(MaxRequests, SessionEnrichments)

\* A session whose classifier may name the log or the reasoning trail in its
\* updates
SpecTrail == Init /\ [][NextTrail]_vars

\* The classifier's updates and assumptions: field keys, an alias, a key that
\* names no attribute, a null value, the empty string, and a current_step
\* key with a registered or an unknown id; the research agent can be invoked
\* in between
EditDecisions ==
    {[action |-> "CHAT", requested_skill |-> NoSkill,
      natural_next_step |-> Null, revision_feedback |-> Absent,
      upd |-> u, assumptions |-> as] :
         u \in Updates \cup {[key |-> "industry", value |-> Empty],
                              [key |-> "current_step", value |-> UnknownId]},
         as \in SUBSET {"name", "project_name", "industry"}}
    \cup {[action |-> "INVOKE", requested_skill |-> "research",
           natural_next_step |-> Null, revision_feedback |-> Absent,
           upd |-> NoUpdate, assumptions |-> {}]}

NextEdits ==
    \/ RouterBegin(MaxEdits, EditDecisions, MergeAudits)
    \/ DispatchInvoke
    \/ RouterFinish

\* A session whose attributes are written by every kind of classifier update
\* and by the research agent
SpecEdits == Init /\ [][NextEdits]_vars

\* The decisions that bring a session to any step and then approve it: an
\* INVOKE of every invokable skill, a PROCEED with every suggested next step
ProceedDecisions ==
    {d \in Decisions :
        /\ d.upd = NoUpdate /\ d.assumptions = {}
        /\ d.revision_feedback = Absent
        /\ \/ /\ d.action = "INVOKE"
              /\ d.requested_skill \in SkillIds \ {"intake"}
              /\ d.natural_next_step = Null
           \/ /\ d.action = "PROCEED"
              /\ d.requested_skill = NoSkill}

NextProceed ==
    \/ IntentCall(MaxTurns, ProceedDecisions)
    \/ DispatchInvoke
    \/ DispatchProceed
    \/ ChainBreakUnknown
    \/ ChainStep

\* A session that is brought to a step and approved there, the approval
\* carrying any suggested next step
SpecProceed == Init /\ [][NextProceed]_vars

\* The decision of a user who only approves: PROCEED, no suggested next step
ApproveDecisions ==
    {d \in Decisions :
        /\ d.action = "PROCEED"
        /\ d.requested_skill = NoSkill /\ d.natural_next_step = Null
        /\ d.revision_feedback = Absent
        /\ d.upd = NoUpdate /\ d.assumptions = {}}

NextApprove ==
    \/ IntentCall(MaxApprovals, ApproveDecisions)
    \/ DispatchProceed
    \/ ChainStep

\* A fresh session with nothing missing whose every message is an approval
SpecApprove == Init /\ [][NextApprove]_vars

\* The decisions that carry feedback for a skill: the revision_feedback key
\* absent, empty or filled, with an INVOKE or a REVISE
FeedbackDecisions ==
    {d \in Decisions :
        /\ d.upd = NoUpdate /\ d.assumptions = {}
        /\ d.natural_next_step = Null
        /\ \/ /\ d.action = "INVOKE"
              /\ d.requested_skill \in {"research", "strategy"}
           \/ /\ d.action = "REVISE"
              /\ d.requested_skill \in {NoSkill, "strategy"}}

NextFeedback ==
    \/ RouterBegin(MaxTurns, FeedbackDecisions, MergeAudits)
    \/ IntentCall(MaxTurns, FeedbackDecisions)
    \/ DispatchInvoke
    \/ DispatchRevise
    \/ RouterFinish

\* A session whose decisions are dispatched by run_router_agent's own
\* _execute_intent or by skill_executor.execute_intent
SpecFeedback == Init /\ [][NextFeedback]_vars

NextClassify ==
    \/ AnalyzeIntent(ModelOutputs(MaxTokens))
    \/ RouterRead(ModelOutputs(MaxTokens), SessionAudits)
    \/ DispatchInvoke
    \/ RouterFinish

\* One message on a fresh session, for every output of the classifier's model
SpecClassify == Init /\ [][NextClassify]_vars

-----------------------------------------------------------------------------
(* Claims about the chain executor (checked under SpecChain) *)

IsMarker(frag) == frag[1] = "gate"

Markers(fragments) == {i \in 1..Len(fragments) : IsMarker(fragments[i])}

ChainOver == pc # "chain"

\* C1: in a chain, a skill with requires_approval = true is the last skill
\* the chain executes: its checkpoint marker is emitted right after it and
\* the chain is over, whatever its suggested_next and the successor's flags.
C1_GateHaltsChain ==
    caller = "direct" =>
        \A i \in 1..Len(ran) :
            registry[ran[i].skill].requires_approval =>
                /\ i = Len(ran)
                /\ ChainOver
                /\ Len(out) > 0
                /\ out[Len(out)] = GateMarker(registry, ran[i].skill)

\* A chain has run a gate whose suggested_next is registered and auto-executing
C1_Witness ==
    /\ caller = "direct"
    /\ pc = "idle"
    /\ Len(ran) > 0
    /\ LET g == ran[Len(ran)].skill
           n == registry[g].suggested_next
       IN /\ registry[g].requires_approval
          /\ Has(registry, n)
          /\ registry[n].auto_execute

\* The predecessor p of a soft stop: not a gate, and its suggested_next is a
\* registered skill with auto_execute = false
SoftStopAfter(p) ==
    /\ ~registry[p].requires_approval
    /\ Has(registry, registry[p].suggested_next)
    /\ ~registry[registry[p].suggested_next].auto_execute

\* C2: a chain that has executed a non-gate skill whose suggested_next has
\* auto_execute = false stops there: the successor is not executed,
\* current_step stays at the predecessor and no checkpoint marker is emitted.
C2_SoftStopBeforeNonAuto ==
    caller = "direct" =>
        \A i \in 1..Len(ran) :
            SoftStopAfter(ran[i].skill) =>
                /\ i = Len(ran)
                /\ ChainOver
                /\ state.current_step = ran[i].skill
                /\ Markers(out) = {}

\* A chain has stopped after a non-gate skill in front of a non-auto successor
C2_Witness ==
    /\ caller = "direct"
    /\ pc = "idle"
    /\ Len(ran) > 0
    /\ SoftStopAfter(ran[Len(ran)].skill)

\* C10: a skill that raises inside a chain is logged, reported by an error
\* fragment and re-raised: it is the last skill of the chain, the exception
\* reaches the caller and no marker follows the failure.
C10_FailureAbortsChain ==
    caller = "direct" =>
        \A i \in 1..Len(ran) :
            ran[i].failed =>
                /\ i = Len(ran)
                /\ ChainOver
                /\ escaped
                /\ <<"error", ran[i].skill>> \in {state.logs[k] : k \in 1..Len(state.logs)}
                /\ out[Len(out)] = <<"error", ran[i].skill>>

-----------------------------------------------------------------------------
(* Claims about the inference merges (checked under SpecMerge) *)

\* The step hands an offer for req'.field to one of the two inference merges
MergeStep ==
    /\ nreq' = nreq + 1
    /\ req'.op \in {"run_enrichment", "enrich"}
    /\ req'.merged

\* C3: an inference merge (of the enrichment service or of /enrich) never
\* changes the active value of a field that is in user_overrides, whatever
\* value and confidence it offers.
C3_MergeKeepsUserOwnedActive ==
    [][\A f \in Fields :
          (MergeStep /\ UserOwned(state, f)) =>
              state'.active[f] = state.active[f]]_vars

\* The user's industry is Legal, and the service has merged an inference of
\* Bakery for it at the top confidence
C3_Witness ==
    /\ req.op = "run_enrichment"
    /\ req.merged
    /\ req.field = "industry"
    /\ state.user_overrides["industry"] = "Legal"
    /\ state.inferred["industry"].value = "Bakery"
    /\ state.inferred["industry"].confidence = MaxConf
    /\ state.active["industry"] = "Legal"

\* C5: an inference merge whose confidence is at most the stored confidence
\* of its field changes neither the stored record (value, confidence, source,
\* rationale) nor the active value of the field; a tie is rejected.
C5_LowOrEqualOfferIsNoOp ==
    [][(/\ MergeStep
        /\ HasRecord(state, req'.field)
        /\ req'.confidence <= state.inferred[req'.field].confidence) =>
           /\ state'.inferred[req'.field] = state.inferred[req'.field]
           /\ state'.active[req'.field] = state.active[req'.field]]_vars

\* The service has just kept a record of rationale r1 against an offer of the
\* same confidence
C5_Witness ==
    /\ req.op = "run_enrichment"
    /\ req.merged
    /\ req.confidence = state.inferred[req.field].confidence
    /\ state.inferred[req.field].rationale = "r1"
    /\ Len(state.logs) > 1
    /\ state.logs[Len(state.logs) - 1] = <<"Enrich", "merged", "kept">>

-----------------------------------------------------------------------------
(* Claims about field ownership and the current step (checked under Spec) *)

\* The step is one of the three operations that merge an inferred record
RecordMergeStep ==
    /\ nreq' = nreq + 1
    /\ req'.op \in {"run_enrichment", "enrich", "update_project"}

C7_UserUpdateShieldsField ==
    [][\A f \in owned : MergeStep => state'.active[f] = state.active[f]]_vars

\* The step applies a classifier update, listed in assumptions, to field f
AssumptionUpdate(f) ==
    /\ nreq' = nreq + 1
    /\ req'.op = "router"
    /\ req'.decision.upd.key # Null
    /\ req'.decision.upd.value # Null
    /\ FIELD_MAP(req'.decision.upd.key) = f
    /\ UpdateSource(req'.decision.upd.key, req'.decision.assumptions) = "inferred"

\* C8: a classifier update listed in assumptions never changes the active
\* value of a field that a user-sourced update has written or that is in
\* user_overrides.
C8_AssumptionKeepsUserOwnedActive ==
    [][\A f \in Fields :
          (AssumptionUpdate(f) /\ (UserOwned(state, f) \/ f \in owned)) =>
              state'.active[f] = state.active[f]]_vars

\* C9: current_step changes only in a step that executes a skill, and then
\* to that skill's id.
C9_OnlyExecutionSetsCurrentStep ==
    [][state'.current_step # state.current_step =>
          /\ Len(ran') = Len(ran) + 1
          /\ state'.current_step = ran'[Len(ran')].skill]_vars

-----------------------------------------------------------------------------
(* Claims about the intent dispatcher (checked under SpecDispatch) *)

\* The dispatcher is about to branch on a decision of the given action
Dispatching(action) == pc = "dispatch" /\ req.decision.action = action

LastLog(st) == IF st.logs = <<>> THEN <<>> ELSE st.logs[Len(st.logs)]

\* C11: a PROCEED dispatched while the step is intake and missing_info is not
\* empty is refused: no skill is executed, no fragment or marker is emitted,
\* the step stays intake, the chain is not entered, and the dispatcher changes
\* the state only by appending the one refusal log entry.
C11_ProceedRefusedInIntake ==
    [][(/\ Dispatching("PROCEED")
        /\ state.current_step = "intake"
        /\ state.missing_info # {})
       => /\ ran' = <<>> /\ out' = <<>>
          /\ pc' = AfterChain
          /\ state' = [state EXCEPT !.logs = Append(@, <<"System", "cannot proceed">>)]
          /\ state'.current_step = "intake"]_vars

C11_Witness ==
    /\ pc \in {"idle", "finish"}
    /\ req.op \in {"router", "intent"}
    /\ req.decision.action = "PROCEED"
    /\ state.current_step = "intake"
    /\ state.missing_info # {}
    /\ LastLog(state) = <<"System", "cannot proceed">>
    /\ ran = <<>>

\* The skills that the request in flight has executed, in order
RanSkills == [i \in 1..Len(ran) |-> ran[i].skill]

\* The dispatch of the request is over
DispatchOver == pc \in {"idle", "finish"} /\ req.op \in {"router", "intent"}

\* The request is a PROCEED that was dispatched in intake with nothing missing
ProceedFromIntake ==
    /\ req.op \in {"router", "intent"}
    /\ req.decision.action = "PROCEED"
    /\ "from" \in DOMAIN req
    /\ req.from = "intake" /\ req.missing = {}

\* C12: with the core registry, a PROCEED dispatched in intake with an empty
\* missing_info executes research and then strategy and nothing else, whatever
\* natural_next_step the decision carries; the dispatch's output ends with
\* strategy's checkpoint marker and the final step is strategy.
C12_ProceedFromIntakeRunsResearchStrategy ==
    ProceedFromIntake =>
        /\ pc = "chain" => /\ RanSkills \in {<<>>, <<"research">>}
                           /\ cur = (IF ran = <<>> THEN "research" ELSE "strategy")
        /\ DispatchOver =>
              /\ RanSkills = <<"research", "strategy">>
              /\ out # <<>> /\ out[Len(out)] = GateMarker(CoreSkills, "strategy")
              /\ state.current_step = "strategy"

C12_Witness ==
    /\ ProceedFromIntake /\ DispatchOver
    /\ req.decision.natural_next_step = "building"
    /\ RanSkills = <<"research", "strategy">>

\* The request is an INVOKE of a registered, directly invokable skill
InvokeAccepted ==
    /\ req.op \in {"router", "intent"}
    /\ req.decision.action = "INVOKE"
    /\ Has(registry, req.decision.requested_skill)
    /\ registry[req.decision.requested_skill].can_invoke_directly

\* C13: an INVOKE of a registered, directly invokable skill S that is not a
\* gate continues the chain after S by the chain executor's rule (an
\* auto-executing suggested_next is executed next); when S is a gate only S
\* runs and its checkpoint marker is emitted.
C13_InvokeContinuesChain ==
    (InvokeAccepted /\ DispatchOver) =>
        LET S == req.decision.requested_skill
        IN IF IsGate(registry, S)
           THEN /\ RanSkills = <<S>>
                /\ out[Len(out)] = GateMarker(registry, S)
           ELSE AutoSuccessor(registry, S) # Null =>
                    /\ Len(ran) >= 2
                    /\ ran[2].skill = AutoSuccessor(registry, S)

\* C14: a REVISE whose target (the requested skill when one is given,
\* otherwise the current step) is not registered or has revision_supported
\* false is refused: no skill is executed, nothing is emitted, and the
\* dispatcher changes the state only by appending one log entry; so a REVISE
\* without a requested skill in intake executes nothing.
C14_ReviseRefused ==
    [][LET target == RevisionTarget(req.decision, state)
       IN (/\ Dispatching("REVISE")
           /\ \/ ~Has(registry, target)
              \/ ~registry[target].revision_supported
              \/ (req.decision.requested_skill = NoSkill /\ state.current_step = "intake"))
          => /\ ran' = <<>> /\ out' = <<>>
             /\ pc' = AfterChain
             /\ state' = [state EXCEPT
                              !.logs = Append(@, <<"System", "no revision", target>>)]]_vars

C14_Witness ==
    /\ DispatchOver
    /\ req.decision.action = "REVISE"
    /\ req.decision.requested_skill = NoSkill
    /\ state.current_step = "intake"
    /\ LastLog(state) = <<"System", "no revision", "intake">>
    /\ ran = <<>>

\* The checkpoint markers among the fragments, in order
EmittedMarkers(fragments) == SelectSeq(fragments, IsMarker)

\* C15: an accepted REVISE executes exactly one skill, its target, once, and
\* never continues into a successor; the step becomes the target, and the
\* target's checkpoint marker is emitted if and only if it requires approval.
C15_ReviseRunsTargetOnly ==
    [][LET target == RevisionTarget(req.decision, state)
       IN (/\ Dispatching("REVISE")
           /\ Has(registry, target)
           /\ registry[target].revision_supported)
          => /\ RanSkills' = <<target>>
             /\ pc' = AfterChain
             /\ state'.current_step = target
             /\ EmittedMarkers(out') = IF registry[target].requires_approval
                                        THEN <<GateMarker(registry, target)>>
                                        ELSE <<>>]_vars

C15_Witness ==
    /\ DispatchOver
    /\ req.decision.action = "REVISE"
    /\ req.decision.requested_skill = "research"
    /\ RanSkills = <<"research">>
    /\ AutoSuccessor(registry, "research") = "strategy"
    /\ EmittedMarkers(out) = <<>>

\* C16: an INVOKE whose requested skill is registered with
\* can_invoke_directly false (intake) executes no skill, emits nothing, leaves
\* the step unchanged, and the dispatcher appends one log entry and changes
\* nothing else.
C16_InvokeOfNonInvokableRefused ==
    [][LET S == req.decision.requested_skill
       IN (/\ Dispatching("INVOKE")
           /\ Has(registry, S)
           /\ ~registry[S].can_invoke_directly)
          => /\ ran' = <<>> /\ out' = <<>>
             /\ pc' = AfterChain
             /\ state'.current_step = state.current_step
             /\ state' = [state EXCEPT
                              !.logs = Append(@, <<"System", "cannot invoke", S>>)]]_vars

C16_Witness ==
    /\ DispatchOver
    /\ req.decision.action = "INVOKE"
    /\ req.decision.requested_skill = "intake"
    /\ state.current_step = "strategy"
    /\ LastLog(state) = <<"System", "cannot invoke", "intake">>
    /\ ran = <<>>

\* C17: missing prerequisites never block an INVOKE: when the requested skill
\* is directly invokable and check_prerequisites reports a prerequisite
\* without output, the dispatcher appends the warning entry to the log and
\* still executes the skill, and the step becomes that skill.
C17_MissingPrerequisitesOnlyWarn ==
    [][LET S == req.decision.requested_skill
       IN (/\ Dispatching("INVOKE")
           /\ Has(registry, S)
           /\ registry[S].can_invoke_directly
           /\ check_prerequisites(registry, S, state) # {})
          => /\ Len(state'.logs) > Len(state.logs)
             /\ state'.logs[Len(state.logs) + 1] = <<"Note", S>>
             /\ RanSkills' = <<S>>
             /\ state'.current_step = S]_vars

C17_Witness ==
    /\ DispatchOver
    /\ req.decision.action = "INVOKE"
    /\ req.decision.requested_skill = "research"
    /\ state.missing_info # {}
    /\ RanSkills = <<"research">> /\ ~ran[1].failed
    /\ state.current_step = "research"
    /\ \E i \in 1..Len(state.logs) : state.logs[i] = <<"Note", "research">>

-----------------------------------------------------------------------------
(* Claims about a whole chat request (checked under Spec) *)

\* A step of run_router_agent on a message whose decision is CHAT
ChatStep ==
    /\ pc \in {"idle", "finish"}
    /\ req'.op = "router"
    /\ req'.decision.action = "CHAT"

-----------------------------------------------------------------------------
(* Claims about the classifier (checked under SpecClassify) *)

NotWs(tok) == ~IsWs(tok)

\* The output holds a decision: ignoring whitespace, it is one JSON object,
\* or it has a code fence that opens (after an optional "json") on one JSON
\* object followed by the closing fence or by the end of the text
WellFormedOutput(text) ==
    LET b == SelectSeq(text, NotWs)
        a == FenceFrom(b, 1)
        r == IF a = 0 THEN b ELSE SubSeq(b, a + 1, Len(b))
        v == IF a # 0 /\ r # <<>> /\ r[1].t = "json" THEN Tail(r) ELSE r
    IN /\ v # <<>>
       /\ v[1].t = "object"
       /\ Len(v) = 1 \/ (a # 0 /\ v[2].t = "fence")

\* A classification has been made from a model output
Classified == req.op \in {"classify", "router"} /\ "text" \in DOMAIN req

-----------------------------------------------------------------------------
(* Claims about the step transition resolver (checked under SpecResolve) *)

Resolved == req.op = "resolve"

\* C20: for PROCEED, get_next_step applies the hard phase jumps first: from
\* intake it returns research, from research strategy and from planning seo,
\* whatever natural_next_step is and whatever the registry is (none
\* included), overriding the skill's own suggested_next.
C20_HardJumpsComeFirst ==
    (Resolved /\ req.action = "PROCEED") =>
        /\ req.current_step = "intake" => req.result = "research"
        /\ req.current_step = "research" => req.result = "strategy"
        /\ req.current_step = "planning" => req.result = "seo"

C20_Witness ==
    /\ Resolved
    /\ req.action = "PROCEED"
    /\ req.current_step = "research"
    /\ req.natural_next_step = "building"
    /\ IsRegistry(registry)
    /\ registry["research"].suggested_next # "strategy"
    /\ req.result = "strategy"

\* The resolver was called for PROCEED on a phase without a hard jump
ResolvedWithoutJump ==
    /\ Resolved
    /\ req.action = "PROCEED"
    /\ req.current_step \notin {"intake", "research", "planning"}

\* The successor of a phase in the nominal phase order, or none
OrderSuccessor(step) ==
    IF \E i \in 1..(Len(PhaseOrder) - 1) : PhaseOrder[i] = step
    THEN PhaseOrder[(CHOOSE i \in 1..(Len(PhaseOrder) - 1) : PhaseOrder[i] = step) + 1]
    ELSE Null

\* C21 as stated: without a hard jump, PROCEED resolves to natural_next_step
\* when one is provided, and otherwise to the successor of the current phase
\* in the nominal phase order (none for building and for an unknown phase).
C21_FallbackIsPhaseOrder ==
    (ResolvedWithoutJump /\ IsRegistry(registry)) =>
        req.result = IF Truthy(req.natural_next_step)
                     THEN req.natural_next_step
                     ELSE OrderSuccessor(req.current_step)

\* C21, amended: without a hard jump, PROCEED resolves to natural_next_step
\* when one is provided; otherwise, when a registry is passed, to the current
\* skill's own suggested_next when it declares one and else to the successor
\* in the nominal phase order (none for building and for an unknown phase);
\* without a registry it resolves to none.
C21_FallbackIsSuggestedNextThenOrder ==
    ResolvedWithoutJump =>
        req.result =
            IF Truthy(req.natural_next_step) THEN req.natural_next_step
            ELSE IF ~IsRegistry(registry) THEN Null
            ELSE IF /\ req.current_step \in DOMAIN registry
                    /\ Truthy(registry[req.current_step].suggested_next)
                 THEN registry[req.current_step].suggested_next
            ELSE OrderSuccessor(req.current_step)

C21_Witness ==
    /\ ResolvedWithoutJump
    /\ req.current_step = "ux"
    /\ req.natural_next_step = Null
    /\ IsRegistry(registry)
    /\ Truthy(registry["ux"].suggested_next)
    /\ registry["ux"].suggested_next # "planning"
    /\ req.result = registry["ux"].suggested_next

-----------------------------------------------------------------------------
(* Further claims about the dispatcher and the chain (checked under
   SpecDispatch and SpecChain) *)

\* The operation about to run names a skill id that the catalog does not hold:
\* the start of a chain, the target of an INVOKE, or the target of a REVISE
UnknownIdStep ==
    \/ pc = "chain" /\ ran = <<>> /\ ~Has(registry, cur)
    \/ /\ Dispatching("INVOKE")
       /\ req.decision.requested_skill # NoSkill
       /\ ~Has(registry, req.decision.requested_skill)
    \/ /\ Dispatching("REVISE")
       /\ ~Has(registry, RevisionTarget(req.decision, state))

\* C22: a skill id unknown to the catalog, as a chain start, an INVOKE target
\* or a REVISE target, aborts only that operation: no skill is executed, the
\* step is unchanged, no exception propagates, and an entry recording the
\* failure is appended to the session log.
C22_UnknownIdIsLoggedAndAborted ==
    [][UnknownIdStep =>
          /\ ran' = <<>>
          /\ state'.current_step = state.current_step
          /\ ~escaped'
          /\ Len(state'.logs) = Len(state.logs) + 1
          /\ state'.logs[Len(state'.logs)][1] = "System"]_vars

-----------------------------------------------------------------------------
(* Claims about the session store (checked under SpecStore) *)

\* C23: requests of one session are processed one at a time: no request of a
\* session loads its state while another request of that session is between
\* get_state and save_state, so no request in flight holds a copy older than
\* the persisted record (whose save would overwrite a persisted update).
C23_OneRequestPerSessionAtATime ==
    /\ \A j, k \in inflight : j.sid = k.sid => j = k
    /\ \A j \in inflight : j.saves = db[j.sid].saves

\* C24: sessions are independent: a request reads only the record of its own
\* session (the copy it works on is that record's state, or the default state
\* when the session has none), and a step of a request of one session, load
\* or save, leaves the record of every other session as it was.
C24_SessionsAreIndependent ==
    [][/\ \A j \in inflight' \ inflight :
             /\ j.state = IF db[j.sid].row THEN db[j.sid].state ELSE InitialState
             /\ \A s \in Sessions \ {j.sid} : db'[s] = db[s]
       /\ \A j \in inflight \ inflight' :
             \A s \in Sessions \ {j.sid} : db'[s] = db[s]]_vars

\* A request of B is in flight on B's own default state after a request of A
\* has persisted a change of A
C24_Witness ==
    /\ db["A"].saves = 1
    /\ db["A"].state.active["project_name"] = "Acme"
    /\ db["B"].row /\ db["B"].saves = 0
    /\ \E j \in inflight :
          /\ j.sid = "B"
          /\ j.id = 3
          /\ j.state = InitialState

-----------------------------------------------------------------------------
(* Further claims about the chain executor (checked under SpecChain) *)

NotMarker(frag) == ~IsMarker(frag)

\* The fragments that skills produced, without the checkpoint markers
SkillFragments(fragments) == SelectSeq(fragments, NotMarker)

\* C25: within one chain invocation the skills run one after another in
\* suggested_next order: the fragments of a skill all come before those of
\* its successor, and the successor starts only when its predecessor has
\* finished, on a state that holds all the predecessor's mutations.
C25_ChainRunsSkillsInSequence ==
    /\ [](caller = "direct" =>
            /\ \A i \in 1..(Len(ran) - 1) :
                   ran[i + 1].skill = registry[ran[i].skill].suggested_next
            /\ Len(SkillFragments(out)) = 2 * Len(ran)
            /\ \A i \in 1..Len(ran) :
                   /\ SkillFragments(out)[2 * i - 1] = <<"start", ran[i].skill>>
                   /\ SkillFragments(out)[2 * i][2] = ran[i].skill)
    /\ [][(pc = "chain" /\ ran # <<>> /\ Len(ran') > Len(ran)) =>
             LET p == ran[Len(ran)]
             IN /\ LastLog(state) = IF p.failed THEN <<"error", p.skill>>
                                     ELSE <<"completed", p.skill>>
                /\ ~p.failed => p.skill \in state.produced
                /\ state.current_step = p.skill]_vars

C25_Witness ==
    /\ caller = "direct" /\ pc = "idle"
    /\ RanSkills = <<"ux", "planning">>
    /\ ~ran[1].failed
    /\ {"ux", "planning"} \subseteq state.produced
    /\ Len(out) = 5

\* C28: a chain invocation emits at most one checkpoint marker; a marker is
\* the last fragment of the stream and names the skill executed last, which
\* is a gate and is the current step; a chain that ends at a soft stop, at
\* the end of the order or on an unknown id emits no marker.
C28_AtMostOneMarkerAndItIsLast ==
    caller = "direct" =>
        /\ Len(EmittedMarkers(out)) <= 1
        /\ Markers(out) # {} =>
              /\ ChainOver
              /\ ran # <<>>
              /\ LET last == ran[Len(ran)].skill
                 IN /\ Markers(out) = {Len(out)}
                    /\ out[Len(out)] =
                         <<"gate", get_gate_name_for_step(last, registry[last].name)>>
                    /\ registry[last].requires_approval
                    /\ state.current_step = last
        /\ (/\ ChainOver
            /\ ran # <<>> => ~registry[ran[Len(ran)].skill].requires_approval) =>
               Markers(out) = {}

\* A chain from research has stopped at the strategy gate with its marker
C28_Witness ==
    /\ caller = "direct" /\ pc = "idle"
    /\ RanSkills = <<"research", "strategy">>
    /\ registry["strategy"].requires_approval
    /\ EmittedMarkers(out) = <<<<"gate", "PROJECT_BRIEF">>>>
    /\ out[Len(out)] = <<"gate", "PROJECT_BRIEF">>
    /\ state.current_step = "strategy"

-----------------------------------------------------------------------------
(* A claim about blueprint approval (checked under SpecProceed) *)

\* The request is a PROCEED that was dispatched while the step was planning
ProceedFromPlanning ==
    /\ req.op \in {"router", "intent"}
    /\ req.decision.action = "PROCEED"
    /\ "from" \in DOMAIN req
    /\ req.from = "planning"

-----------------------------------------------------------------------------
(* A claim about the log and the reasoning trail (checked under SpecTrail) *)

IsPrefix(s, t) == Len(s) <= Len(t) /\ SubSeq(t, 1, Len(s)) = s

\* C30: the session log and the reasoning trail are append-only: every
\* operation (dispatch, skill execution, chain, field update, intake audit,
\* enrichment, form update) leaves the log and the trail it found as prefixes
\* of the log and the trail it leaves.
C30_LogAndTrailAreAppendOnly ==
    [][/\ IsPrefix(state.logs, state'.logs)
       /\ IsPrefix(state.agent_reasoning, state'.agent_reasoning)]_vars

-----------------------------------------------------------------------------
(* Claims about the registry (checked under SpecRegister) *)

\* C26: registering a skill under an id that is already registered
\* overwrites silently: afterwards the id resolves to the skill registered
\* last, list_all holds exactly one skill with that id, and no error is
\* raised.
C26_LastRegistrationWins ==
    req.op = "register" =>
        /\ Has(registry, req.id)
        /\ registry[req.id] = req.skill
        /\ Cardinality({e \in list_all(registry) : e.id = req.id}) = 1
        /\ Cardinality(list_all(registry)) = Cardinality(DOMAIN CoreSkills)
        /\ ~escaped

C26_Witness ==
    /\ req.op = "register"
    /\ nreq = 2
    /\ req.before # CoreSkills[req.id]
    /\ req.before # req.skill
    /\ registry[req.id] = req.skill
    /\ Cardinality({e \in list_all(registry) : e.id = req.id}) = 1

-----------------------------------------------------------------------------
(* A further claim about the inference merges (checked under SpecMerge) *)

\* C27: an inference merge for a field that is in user_overrides is rejected
\* whatever its confidence: the field's stored inferred record (value,
\* confidence, source, rationale) and its active value are left unchanged.
C27_MergeKeepsUserOwnedRecord ==
    [][(MergeStep /\ UserOwned(state, req'.field)) =>
           /\ state'.inferred[req'.field] = state.inferred[req'.field]
           /\ state'.active[req'.field] = state.active[req'.field]]_vars

-----------------------------------------------------------------------------
(* Claims about the field updater (checked under SpecEdits) *)

\* The step is the start of a chat request: phases 3 to 5 of run_router_agent
RouterBeginStep ==
    /\ pc = "idle" /\ pc' # "idle"
    /\ req'.op = "router"

\* C31: after update_state_field is applied with source = user to a field,
\* the field is not in project_meta.inferred_fields, whatever classifier
\* updates and research executions came before.
C31_UserUpdateClearsInferredMark ==
    [][RouterBeginStep =>
          \A f \in UserWritten(req'.decision) :
              f \notin Elems(state'.inferred_fields)]_vars

\* C32: update_state_from_router_updates writes every update key that has a
\* non-null value and names a field: as inferred (the field is in
\* inferred_fields afterwards) exactly when the assumptions list the key as
\* given or its canonical name, as user-provided (one occurrence of the field
\* is removed from inferred_fields) otherwise; a null value and a key that
\* names no state attribute change nothing.
C32_UpdatesAreWrittenWithTheirSource ==
    [][RouterBeginStep =>
          LET u == req'.decision.upd
              as == req'.decision.assumptions
              F == FIELD_MAP(u.key)
              listed == u.key \in as \/ F \in as
          IN IF u.key = Null \/ u.value = Null \/ F \notin StateAttrs
             THEN /\ state'.active = state.active
                  /\ state'.inferred_fields = state.inferred_fields
                  /\ state'.current_step = state.current_step
             ELSE F \in Fields =>
                    /\ state'.active = [state.active EXCEPT ![F] = u.value]
                    /\ IF listed
                       THEN /\ F \in Elems(state'.inferred_fields)
                            /\ state'.inferred_fields =
                                 IF F \in Elems(state.inferred_fields)
                                 THEN state.inferred_fields
                                 ELSE Append(state.inferred_fields, F)
                       ELSE state'.inferred_fields =
                                 RemoveFirst(state.inferred_fields, F)]_vars

\* The alias name was written as inferred because the assumptions list its
\* canonical name, after an earlier inferred update of the industry
C32_Witness ==
    /\ req.op = "router" /\ pc = "finish"
    /\ nreq >= 2
    /\ req.decision.upd = [key |-> "name", value |-> "Acme"]
    /\ req.decision.assumptions = {"project_name"}
    /\ state.active["project_name"] = "Acme"
    /\ state.inferred_fields = <<"industry", "project_name">>

-----------------------------------------------------------------------------
\* No skill occurs twice among the skills the call in flight has executed
NoSkillRanTwice ==
    \A i, j \in 1..Len(ran) : i # j => ran[i].skill # ran[j].skill

\* C33: with the shipped catalog a call of execute_skill_chain executes each
\* skill at most once and at most as many skills as the catalog holds, and
\* every call that is under way ends (the chain stops and control is back
\* with the caller), whatever the start id and whatever the skills' outcomes
C33_ChainTerminates ==
    /\ [](registry = CoreSkills /\ req.op = "direct"
            => /\ NoSkillRanTwice
               /\ Len(ran) <= Cardinality(DOMAIN registry))
    /\ (registry = CoreSkills /\ pc = "chain") ~> (pc = "idle" /\ cur = Null)

\* A chain under the shipped catalog that ran two skills and stopped after
\* the terminal one
C33_Witness ==
    /\ registry = CoreSkills
    /\ req.op = "direct"
    /\ req.start = "prd"
    /\ pc = "idle"
    /\ cur = Null
    /\ RanSkills = <<"prd", "building">>

-----------------------------------------------------------------------------
\* C34: in every reachable state of a session, current_step is the id of a
\* registered skill
C34_CurrentStepIsRegistered == Has(registry, state.current_step)
-----------------------------------------------------------------------------
\* The dispatch of a PROCEED is over, it executed at least one skill, and no
\* skill failed
ProceedRanWithoutFailure ==
    /\ DispatchOver
    /\ req.decision.action = "PROCEED"
    /\ Len(ran) >= 1
    /\ \A i \in 1..Len(ran) : ~ran[i].failed
    /\ ~escaped

\* C35: after a PROCEED dispatch that executed at least one skill, none of
\* them failing, current_step is a gate or a skill without suggested_next;
\* with the shipped catalog it is none of research, ux, seo, prd
C35_ProceedRestsAtGateOrTerminal ==
    ProceedRanWithoutFailure =>
        /\ state.current_step = ran[Len(ran)].skill
        /\ \/ registry[state.current_step].requires_approval
           \/ ~Truthy(registry[state.current_step].suggested_next)
        /\ state.current_step \notin {"research", "ux", "seo", "prd"}

\* An approval in strategy whose suggested next step is prd: the chain ran
\* prd and building and the session rests at the terminal skill
C35_Witness ==
    /\ ProceedRanWithoutFailure
    /\ pc = "idle"
    /\ req.from = "strategy"
    /\ req.decision.natural_next_step = "prd"
    /\ RanSkills = <<"prd", "building">>
    /\ state.current_step = "building"
    /\ registry["building"].suggested_next = Null
-----------------------------------------------------------------------------
\* The log entries that execute_skill writes when it starts a skill
IsExecuting(entry) == Len(entry) = 2 /\ entry[1] = "executing"

\* The skills the session has executed so far, in order
ExecutedSkills ==
    LET es == SelectSeq(state.logs, IsExecuting)
    IN [i \in 1..Len(es) |-> es[i][2]]

\* No skill of the session has failed
NoSkillFailed ==
    /\ ~escaped
    /\ \A i \in 1..Len(state.logs) : state.logs[i][1] # "error"

\* Where the session rests after each approval, and how many skills the
\* nominal order has run by then
ApprovalHalts == <<"strategy", "planning", "copywriting", "building">>

\* C36: from intake with nothing missing, approvals without a suggested next
\* step (no skill failing) halt at strategy, planning and copywriting and
\* reach building with the fourth; the skills executed by then are research
\* to building, each once, in phase order
C36_FourApprovalsReachBuilding ==
    (pc = "idle" /\ NoSkillFailed) =>
        LET k == IF nreq < Len(ApprovalHalts) THEN nreq ELSE Len(ApprovalHalts)
        IN /\ state.current_step = IF k = 0 THEN "intake" ELSE ApprovalHalts[k]
           /\ ExecutedSkills = SubSeq(PhaseOrder, 2, 2 * k + 1)
           /\ state.current_step = "building" <=> nreq >= Len(ApprovalHalts)

\* The fourth approval is over: the session is at building and has executed
\* the eight skills after intake
C36_Witness ==
    /\ pc = "idle"
    /\ NoSkillFailed
    /\ nreq = Len(ApprovalHalts)
    /\ req.from = "copywriting"
    /\ RanSkills = <<"prd", "building">>
    /\ state.current_step = "building"
    /\ ExecutedSkills = SubSeq(PhaseOrder, 2, Len(PhaseOrder))
-----------------------------------------------------------------------------
\* The position in the phase order of the first gate after a step, or of the
\* last phase when no gate follows
NextGateIndex(step) ==
    LET from == IndexOf(PhaseOrder, step, 1)
        gates == {i \in (from + 1)..Len(PhaseOrder) :
                     registry[PhaseOrder[i]].requires_approval}
    IN IF gates = {} THEN Len(PhaseOrder)
       ELSE CHOOSE i \in gates : \A j \in gates : i <= j

\* C37: the first skill a PROCEED dispatch executes is the successor of the
\* step it was dispatched in, in phase order, and no skill it executes lies
\* after the next gate in that order, whatever natural_next_step it carries
C37_ProceedNeverJumpsOverGate ==
    (DispatchOver /\ req.decision.action = "PROCEED" /\ Len(ran) >= 1) =>
        /\ ran[1].skill = OrderSuccessor(req.from)
        /\ \A i \in 1..Len(ran) :
              IndexOf(PhaseOrder, ran[i].skill, 1) <= NextGateIndex(req.from)
-----------------------------------------------------------------------------
\* The feedback argument that skill_executor.execute_intent hands to the
\* skill for a decision
IntentFeedback(d) ==
    IF d.revision_feedback = Absent \/ ~Truthy(d.revision_feedback)
    THEN UserMessage ELSE d.revision_feedback

\* C38: router_agent._execute_intent and skill_executor.execute_intent are
\* equivalent: whichever of the two dispatched an INVOKE or a REVISE, the
\* skill it executed is the one the decision resolves to and the feedback
\* the skill received is the one execute_intent passes for that decision
C38_DispatchersAreEquivalent ==
    (DispatchOver /\ req.decision.action \in {"INVOKE", "REVISE"} /\ Len(ran) >= 1) =>
        /\ Len(ran) = 1
        /\ state.current_step = ran[1].skill
        /\ ran[1].feedback = PassedFeedback(IntentFeedback(req.decision))
====
